---- MODULE Spec2Model ----
(***************************************************************************)
(* The peer-to-peer connection subsystem of the virtual classroom:         *)
(* WebRTCManager (the peer session manager), the signaling listener and    *)
(* router of ClassRoom, and EnhancedScreenShare.                            *)
(*                                                                         *)
(* Every asynchronous method is cut at its awaits: the synchronous part of *)
(* a call is one step, and each resolution of an awaited promise, together *)
(* with the code that runs up to the next await, is one step.              *)
(***************************************************************************)
EXTENDS Integers, Sequences, FiniteSets, Bags, TLC

\* ------------------------------------------------------------------ bounds
MaxHandles == 3      \* RTCPeerConnection objects reachable at once
MaxTasks == 2        \* asynchronous calls in flight at once
MaxCands == 2        \* ICE candidates handed to addIceCandidate in one run
MaxAttempts == 3     \* getUserMedia requests in one run
MaxStreams == 2      \* capture streams getUserMedia hands out in one run
MaxShares == 2       \* screen shares started in one run
MaxDuplicates == 1   \* signals the transport stores or reports a second time in one run
MaxTicks == 3        \* seconds the clock advances in one run
MaxSent == 3         \* signals of any type one viewer publishes in one run
MaxStray == 2        \* signals that reach the collection from outside the handshake in one run

\* --------------------------------------------------------------- constants
DedupWindow == 3000  \* ms within which the listener drops a repeated (type, sender)
JoinDelay == 2000    \* ms between the end of the viewer's capture attempt and its join-request

\* ------------------------------------------------------------ participants
Teacher == "t"
Students == {"s1", "s2"}
Users == {Teacher} \cup Students

\* The participant whose manager the operation harness drives, and the remote
\* ids it passes.
LocalUser == Teacher
Remotes == {"s1"}

VARIABLES
  pcs,                \* the reachable RTCPeerConnection objects: handle -> object
  peerConnections,    \* WebRTCManager.peerConnections, per participant: remoteId -> handle
  remoteStreams,      \* WebRTCManager.remoteStreams: remoteId -> handle whose stream it is
  connectionStates,   \* WebRTCManager.connectionStates: remoteId -> state
  pendingCandidates,  \* WebRTCManager.pendingCandidates: remoteId -> sequence of candidates
  localStream,        \* WebRTCManager.localStream: 0 (null) or a stream id
  isInitialized,      \* WebRTCManager.isInitialized
  captures,           \* the streams getUserMedia has handed out; a stream id is its index
  gum,                \* the getUserMedia requests not yet settled, as a bag
  gumCalls,           \* observer: number of getUserMedia requests made
  share,              \* the fields of the EnhancedScreenShare instance
  displays,           \* the streams getDisplayMedia has handed out
  sharePending,       \* number of getDisplayMedia requests not yet settled
  signals,            \* every document ever added to the webrtcSignals collection; its id
                      \* is its index
  clock,              \* Date.now(), in ms
  processedSignalIds, \* the listener's processedSignalIds, per participant
  recentSignalKeys,   \* the listener's recentSignalKeys, per participant: key -> time
  offerCalls,         \* observer: the createOffer calls the router has made
  tasks,              \* the calls suspended at an await, as a bag
  nextCand,           \* number of the next candidate the remote side produces
  owed,               \* observer: per remote id, the well-formed candidates handed over
                      \* before its remote description was set, since its session was last disposed
  room,               \* the ClassRoom component, per participant: whether it is mounted,
                      \* how far the viewer's auto-join has got and when its timer is due
  lastAct             \* the operation step taken last: its name, the participant, the remote
                      \* id (or the constraints of a capture request), its outcome and the
                      \* events it dispatched

mgrVars == <<pcs, peerConnections, remoteStreams, connectionStates, pendingCandidates>>
callVars == <<tasks, nextCand, owed>>
mediaVars == <<localStream, isInitialized, captures, gum, gumCalls>>
shareVars == <<share, displays, sharePending>>
sessionVars == <<signals, clock, processedSignalIds, recentSignalKeys, offerCalls>>
roomVars == <<room>>
vars == <<mgrVars, callVars, mediaVars, shareVars, sessionVars, roomVars, lastAct>>

\* ------------------------------------------------------------ partial maps
MapDelAll(f, k) == [x \in {} |-> 0]

MapSet(f, k, v) == [x \in DOMAIN f \cup {k} |-> IF x = k THEN v ELSE f[x]]
MapDel(f, k) == [x \in DOMAIN f \ {k} |-> f[x]]
EmptyMap == [x \in {} |-> 0]

\* --------------------------------------------------------- plain records
\* A session description or a candidate as it travels: its type, the handle (or
\* candidate number) it comes from, and whether it is well-formed.
NoDesc == [type |-> "none", h |-> 0, ok |-> TRUE]
Desc(type, h, ok) == [type |-> type, h |-> h, ok |-> ok]

\* The snapshot callback a manager call was made from: the time it read when it
\* started, the id of the signal it is processing and the ids still to come in
\* its loop. A call made by anyone else carries NoCallback.
NoCallback == [now |-> 0, id |-> 0, rest |-> <<>>]

Act(op, e, rid, res, ev) == [op |-> op, e |-> e, rid |-> rid, res |-> res, ev |-> ev]

\* The manager's state as one value, threaded through the methods below; ev
\* collects the window events the step dispatches, res and ret the outcome of
\* the call that ends in this step.
Mgr == [pcs |-> pcs, peerConnections |-> peerConnections, remoteStreams |-> remoteStreams,
        connectionStates |-> connectionStates, pendingCandidates |-> pendingCandidates,
        tasks |-> tasks, owed |-> owed, signals |-> signals,
        processedSignalIds |-> processedSignalIds, recentSignalKeys |-> recentSignalKeys,
        offerCalls |-> offerCalls, ev |-> {}, res |-> "pending", ret |-> NoDesc]

\* A closed connection is unreachable, and is collected, once no suspended call
\* holds it and no description in a connection or in a signal comes from it.
Reachable(st) ==
  {h \in DOMAIN st.pcs :
     \/ st.pcs[h].sig # "closed"
     \/ \E t \in BagToSet(st.tasks) : t.h = h
     \/ \E g \in DOMAIN st.pcs : st.pcs[g].sig # "closed" /\ st.pcs[g].remoteDesc.h = h
     \/ \E i \in 1..Len(st.signals) :
          st.signals[i].body.type \in {"offer", "answer"} /\ st.signals[i].body.h = h}

Commit(st) ==
  /\ pcs' = [h \in Reachable(st) |-> st.pcs[h]]
  /\ peerConnections' = st.peerConnections
  /\ remoteStreams' = st.remoteStreams
  /\ connectionStates' = st.connectionStates
  /\ pendingCandidates' = st.pendingCandidates
  /\ tasks' = st.tasks
  /\ owed' = st.owed

CommitSession(st) ==
  /\ Commit(st)
  /\ signals' = st.signals
  /\ processedSignalIds' = st.processedSignalIds
  /\ recentSignalKeys' = st.recentSignalKeys
  /\ offerCalls' = st.offerCalls

\* --------------------------------------------------- RTCPeerConnection
NewPeerConnection(e, r, stream) ==
  [owner |-> e, rid |-> r, sig |-> "stable", conn |-> "new",
   localDesc |-> NoDesc, remoteDesc |-> NoDesc, applied |-> <<>>,
   tracks |-> stream, answers |-> 0]

pcCloseSkipped(pc) == pc

\* peerConnection.close(). Nothing reads the descriptions, candidates or tracks
\* of a closed connection, and every later call on it is rejected: they are
\* dropped from the record.
pcClose(pc) ==
  [NewPeerConnection(pc.owner, pc.rid, 0) EXCEPT !.sig = "closed", !.conn = "closed"]

\* Whether peerConnection.addIceCandidate(c) resolves: it rejects on a closed
\* connection, before a remote description is set, and for a malformed candidate.
pcCanAddCandidate(pc, c) ==
  pc.sig # "closed" /\ pc.remoteDesc.type # "none" /\ c.ok

\* The handle of the next object constructed.
NewHandle(st) ==
  CHOOSE h \in 1..MaxHandles :
    h \notin DOMAIN st.pcs /\ \A j \in 1..(h - 1) : j \in DOMAIN st.pcs

\* --------------------------------------------------------- suspended calls
Task(op, e, r, h, arg, phase, cb) ==
  [op |-> op, e |-> e, rid |-> r, h |-> h, arg |-> arg, phase |-> phase,
   pend |-> <<>>, i |-> 0, alias |-> FALSE, cb |-> cb]

Spawn(st, t) == [st EXCEPT !.tasks = @ (+) SetToBag({t})]
Take(st, t) == [st EXCEPT !.tasks = @ (-) SetToBag({t})]
Return(st, res, ret) == [st EXCEPT !.res = res, !.ret = ret]

\* ------------------------------------------------- pendingCandidates arrays
\* A suspended handleAnswer iterates over the array object it read from the map.
\* The array stays the map's entry until the entry is replaced or deleted.
Unalias(ts, e, r) ==
  LET drop(t) == IF t.e = e /\ t.rid = r THEN [t EXCEPT !.alias = FALSE] ELSE t
  IN BagOfAll(drop, ts)

PushAliased(ts, e, r, c) ==
  LET push(t) == IF t.e = e /\ t.rid = r /\ t.alias
                 THEN [t EXCEPT !.pend = Append(@, c)] ELSE t
  IN BagOfAll(push, ts)

\* const pending = this.pendingCandidates.get(id) || []; pending.push(c);
\* this.pendingCandidates.set(id, pending)
pushPending(st, e, r, c) ==
  IF r \in DOMAIN st.pendingCandidates[e]
  THEN [st EXCEPT !.pendingCandidates[e][r] = Append(@, c),
                  !.tasks = PushAliased(@, e, r, c)]
  ELSE [st EXCEPT !.pendingCandidates[e] = MapSet(@, r, <<c>>)]

\* ------------------------------------------------------- WebRTCManager
closeConnectionAnnounced(st, e, r) ==
  LET has == r \in DOMAIN st.peerConnections[e]
      h == st.peerConnections[e][r]
      st1 == IF has
             THEN [st EXCEPT !.pcs[h] = pcClose(@),
                             !.peerConnections[e] = MapDel(@, r)]
             ELSE st
  IN [st1 EXCEPT !.remoteStreams[e] = MapDel(@, r),
                 !.connectionStates[e] = MapDel(@, r),
                 !.pendingCandidates[e] = MapDel(@, r),
                 !.tasks = Unalias(@, e, r),
                 !.owed[e][r] = <<>>,
                 !.ev = @ \cup {<<"peer-disconnected", r>>}]

\* A closeConnection that leaves the connection state behind.
closeConnectionKeepingState(st, e, r) ==
  LET has == r \in DOMAIN st.peerConnections[e]
      h == st.peerConnections[e][r]
      st1 == IF has
             THEN [st EXCEPT !.pcs[h] = pcClose(@),
                             !.peerConnections[e] = MapDel(@, r)]
             ELSE st
  IN [st1 EXCEPT !.remoteStreams[e] = MapDel(@, r),
                 !.pendingCandidates[e] = MapDel(@, r),
                 !.tasks = Unalias(@, e, r),
                 !.owed[e][r] = <<>>]

closeConnection(st, e, r) ==
  LET has == r \in DOMAIN st.peerConnections[e]
      h == st.peerConnections[e][r]
      st1 == IF has
             THEN [st EXCEPT !.pcs[h] = pcClose(@),
                             !.peerConnections[e] = MapDel(@, r)]
             ELSE st
  IN [st1 EXCEPT !.remoteStreams[e] = MapDel(@, r),
                 !.connectionStates[e] = MapDel(@, r),
                 !.pendingCandidates[e] = MapDel(@, r),
                 !.tasks = Unalias(@, e, r),
                 !.owed[e][r] = <<>>]

createPeerConnection(st, e, r) ==
  LET st1 == IF r \in DOMAIN st.peerConnections[e] THEN closeConnection(st, e, r) ELSE st
      h == NewHandle(st1)
  IN [st1 EXCEPT !.pcs = MapSet(@, h, NewPeerConnection(e, r, localStream[e])),
                 !.connectionStates[e] = MapSet(@, r, "new"),
                 !.pendingCandidates[e] = MapSet(@, r, <<>>),
                 !.tasks = Unalias(@, e, r),
                 !.peerConnections[e] = MapSet(@, r, h)]

closeAllConnections(st, e) ==
  LET RECURSIVE closeEach(_, _)
      closeEach(s, ids) ==
        IF ids = {} THEN s
        ELSE LET r == CHOOSE x \in ids : TRUE
             IN closeEach(closeConnection(s, e, r), ids \ {r})
  IN closeEach(st, DOMAIN st.peerConnections[e])

hasConnection(st, e, r) ==
  /\ r \in DOMAIN st.peerConnections[e]
  /\ st.pcs[st.peerConnections[e][r]].conn # "closed"
  /\ st.pcs[st.peerConnections[e][r]].sig # "closed"

isConnectionHealthyNever(st, e, r) == FALSE

isConnectionHealthy(st, e, r) ==
  /\ r \in DOMAIN st.peerConnections[e]
  /\ st.pcs[st.peerConnections[e][r]].conn = "connected"

openSessionReusing(st, op, e, r, arg, first, cb) ==
  IF r \in DOMAIN st.peerConnections[e]
  THEN Spawn(st, Task(op, e, r, st.peerConnections[e][r], arg, first, cb))
  ELSE LET st1 == createPeerConnection(st, e, r)
       IN Spawn(st1, Task(op, e, r, st1.peerConnections[e][r], arg, first, cb))

\* createOffer and handleOffer up to their first await on the connection: the
\* old connection is closed and the call sleeps 100 ms, or the new connection
\* is constructed at once.
openSession(st, op, e, r, arg, first, cb) ==
  IF r \in DOMAIN st.peerConnections[e]
  THEN Spawn(closeConnection(st, e, r), Task(op, e, r, 0, arg, "grace", cb))
  ELSE LET st1 == createPeerConnection(st, e, r)
       IN Spawn(st1, Task(op, e, r, st1.peerConnections[e][r], arg, first, cb))

\* The call resumes after the 100 ms delay and constructs its connection.
afterGrace(st, t, first) ==
  LET st1 == createPeerConnection(st, t.e, t.rid)
  IN Spawn(st1, [t EXCEPT !.h = st1.peerConnections[t.e][t.rid], !.phase = first])

\* A catch block that rethrows without closing the connection.
failSessionKept(st, t) == Return(st, "threw", NoDesc)

\* catch (error) { this.closeConnection(studentId); throw error; }
failSession(st, t) == Return(closeConnection(st, t.e, t.rid), "threw", NoDesc)

\* createOffer(studentId), synchronous part
createOfferCall(st, e, r, cb) ==
  openSession(st, "createOffer", e, r, NoDesc, "createOffer", cb)

\* A createOffer that returns its offer whatever has become of its connection.
createOfferStepUnchecked(st, t, ok) ==
  CASE t.phase = "grace" -> afterGrace(st, t, "createOffer")
    [] t.phase = "createOffer" ->
         Spawn(st, [t EXCEPT !.phase = "setLocal", !.arg = Desc("offer", t.h, TRUE)])
    [] OTHER ->
         Return(IF st.pcs[t.h].sig = "closed" THEN st
                ELSE [st EXCEPT !.pcs[t.h].sig = "have-local-offer",
                                !.pcs[t.h].localDesc = t.arg],
                "done", t.arg)

\* createOffer(studentId), one resumption of the call t, which has been taken
\* out of st.tasks; ok: whether the browser resolves the awaited promise when
\* the connection's state allows it
createOfferStep(st, t, ok) ==
  LET pc == st.pcs[t.h]
  IN CASE t.phase = "grace" -> afterGrace(st, t, "createOffer")
       [] t.phase = "createOffer" ->
            IF pc.sig = "closed" \/ ~ok THEN failSession(st, t)
            ELSE Spawn(st, [t EXCEPT !.phase = "setLocal", !.arg = Desc("offer", t.h, TRUE)])
       [] OTHER ->
            IF pc.sig = "closed" \/ ~ok THEN failSession(st, t)
            ELSE Return([st EXCEPT !.pcs[t.h].sig = "have-local-offer",
                                   !.pcs[t.h].localDesc = t.arg],
                        "done", t.arg)

\* handleOffer(studentId, offer), synchronous part
handleOfferCall(st, e, r, offer, cb) ==
  openSession(st, "handleOffer", e, r, offer, "setRemote", cb)

\* handleOffer(studentId, offer), one resumption
handleOfferStep(st, t, ok) ==
  LET pc == st.pcs[t.h]
  IN CASE t.phase = "grace" -> afterGrace(st, t, "setRemote")
       [] t.phase = "setRemote" ->
            IF pc.sig = "closed" \/ ~ok THEN failSession(st, t)
            ELSE Spawn([st EXCEPT !.pcs[t.h].sig = "have-remote-offer",
                                  !.pcs[t.h].remoteDesc = t.arg],
                       [t EXCEPT !.phase = "createAnswer"])
       [] t.phase = "createAnswer" ->
            IF pc.sig # "have-remote-offer" \/ ~ok THEN failSession(st, t)
            ELSE Spawn(st, [t EXCEPT !.phase = "setLocal", !.arg = Desc("answer", t.h, TRUE)])
       [] OTHER ->
            IF pc.sig # "have-remote-offer" \/ ~ok THEN failSession(st, t)
            ELSE Return([st EXCEPT !.pcs[t.h].sig = "stable",
                                   !.pcs[t.h].localDesc = t.arg],
                        "done", t.arg)

handleAnswerGuardSkipped(sig) == TRUE

\* if (signalingState !== 'have-local-offer') return;
handleAnswerGuard(sig) == sig = "have-local-offer"

\* handleAnswer(studentId, answer), synchronous part
handleAnswerCall(st, e, r, answer, cb) ==
  IF r \notin DOMAIN st.peerConnections[e] THEN Return(st, "threw", NoDesc)
  ELSE LET h == st.peerConnections[e][r]
       IN IF ~handleAnswerGuard(st.pcs[h].sig) THEN Return(st, "noop", NoDesc)
          ELSE Spawn(st, Task("handleAnswer", e, r, h, answer, "setRemote", cb))

\* this.pendingCandidates.set(studentId, []) after the loop over pending
endDrain(st, t) ==
  Return([st EXCEPT !.pendingCandidates[t.e] = MapSet(@, t.rid, <<>>),
                    !.tasks = Unalias(@, t.e, t.rid)],
         "done", NoDesc)

\* handleAnswer(studentId, answer), one resumption; ok: whether
\* setRemoteDescription resolves when the signalingState allows it
handleAnswerStep(st, t, ok) ==
  LET pc == st.pcs[t.h]
  IN IF t.phase = "setRemote"
     THEN \* await peerConnection.setRemoteDescription(answer)
          IF pc.sig # "have-local-offer" THEN Return(st, "ignored", NoDesc)
          ELSE IF ~ok THEN Return(st, "threw", NoDesc)
          ELSE LET has == t.rid \in DOMAIN st.pendingCandidates[t.e]
                   pending == IF has THEN st.pendingCandidates[t.e][t.rid] ELSE <<>>
                   st1 == [st EXCEPT !.pcs[t.h].sig = "stable",
                                     !.pcs[t.h].remoteDesc = t.arg,
                                     !.pcs[t.h].answers = @ + 1]
               IN IF pending = <<>> THEN endDrain(st1, t)
                  ELSE Spawn(st1, [t EXCEPT !.pend = pending, !.alias = has,
                                            !.i = 1, !.phase = "drain"])
     ELSE \* await peerConnection.addIceCandidate(candidate), inside the loop
          LET c == t.pend[t.i]
              st1 == IF pcCanAddCandidate(pc, c)
                     THEN [st EXCEPT !.pcs[t.h].applied = Append(@, c.h)]
                     ELSE st
          IN IF t.i < Len(t.pend) THEN Spawn(st1, [t EXCEPT !.i = t.i + 1])
             ELSE endDrain(st1, t)

\* The observer's note of a candidate handed over before the remote description.
noteEarly(st, e, r, c) ==
  LET early == r \notin DOMAIN st.peerConnections[e]
               \/ st.pcs[st.peerConnections[e][r]].remoteDesc.type = "none"
  IN IF early /\ c.ok THEN [st EXCEPT !.owed[e][r] = Append(@, c.h)] ELSE st

\* addIceCandidate(studentId, candidateData), synchronous part
addIceCandidateCall(st, e, r, c, cb) ==
  IF r \notin DOMAIN st.peerConnections[e]
  THEN Return(pushPending(noteEarly(st, e, r, c), e, r, c), "buffered", NoDesc)
  ELSE Spawn(noteEarly(st, e, r, c),
             Task("addIceCandidate", e, r, st.peerConnections[e][r], c, "add", cb))

\* addIceCandidate(studentId, candidateData), the await resolves or rejects
addIceCandidateStep(st, t) ==
  IF pcCanAddCandidate(st.pcs[t.h], t.arg)
  THEN Return([st EXCEPT !.pcs[t.h].applied = Append(@, t.arg.h)], "done", NoDesc)
  ELSE Return(pushPending(st, t.e, t.rid, t.arg), "buffered", NoDesc)

\* ------------------------------------------------ RTCPeerConnection events
ConnTransitions ==
  {<<"new", "connecting">>, <<"connecting", "connected">>, <<"connecting", "failed">>,
   <<"connected", "disconnected">>, <<"disconnected", "connected">>,
   <<"disconnected", "failed">>}

\* A handler that announces the state without recording it.
onconnectionstatechangeUnrecorded(st, h, s) ==
  LET pc == st.pcs[h]
      st1 == [st EXCEPT !.pcs[h].conn = s]
  IN IF s = "connected"
     THEN [st1 EXCEPT !.ev = @ \cup {<<"peer-connected", pc.rid>>}]
     ELSE IF s \in {"disconnected", "failed", "closed"}
     THEN [st1 EXCEPT !.ev = @ \cup {<<"peer-disconnected", pc.rid>>},
                      !.remoteStreams[pc.owner] = MapDel(@, pc.rid)]
     ELSE st1

\* peerConnection.onconnectionstatechange (and oniceconnectionstatechange)
onconnectionstatechange(st, h, s) ==
  LET pc == st.pcs[h]
      st1 == [st EXCEPT !.pcs[h].conn = s,
                        !.connectionStates[pc.owner] = MapSet(@, pc.rid, s)]
  IN IF s = "connected"
     THEN [st1 EXCEPT !.ev = @ \cup {<<"peer-connected", pc.rid>>}]
     ELSE IF s \in {"disconnected", "failed", "closed"}
     THEN [st1 EXCEPT !.ev = @ \cup {<<"peer-disconnected", pc.rid>>},
                      !.remoteStreams[pc.owner] = MapDel(@, pc.rid)]
     ELSE st1

\* peerConnection.ontrack
ontrack(st, h) ==
  LET pc == st.pcs[h]
  IN [st EXCEPT !.remoteStreams[pc.owner] = MapSet(@, pc.rid, h),
                !.ev = @ \cup {<<"remote-stream-added", pc.rid>>}]

\* ------------------------------------------- window event handlers (ClassRoom)
\* handlePeerConnected: setActiveConnections(prev => new Set(prev).add(studentId))
handlePeerConnected(rm, e, r) ==
  [rm EXCEPT ![e].activeConnections = @ \cup {r}]

handlePeerDisconnectedSkipped(rm, e, r) == rm

\* handlePeerDisconnected: the id is deleted from activeConnections and from
\* the component's remoteStreams; nothing else is called.
handlePeerDisconnected(rm, e, r) ==
  [rm EXCEPT ![e].activeConnections = @ \ {r}, ![e].remoteStreams = @ \ {r}]

\* handleRemoteStreamAdded: setRemoteStreams(prev => new Map(prev).set(studentId, stream))
handleRemoteStreamAdded(rm, e, r) ==
  [rm EXCEPT ![e].remoteStreams = @ \cup {r}]

\* window.dispatchEvent runs the listeners of the mounted component at once.
RECURSIVE dispatchEvents(_, _, _)
dispatchEvents(rm, e, ev) ==
  IF ev = {} \/ ~rm[e].mounted THEN rm
  ELSE LET x == CHOOSE y \in ev : TRUE
           rm1 == CASE x[1] = "peer-connected" -> handlePeerConnected(rm, e, x[2])
                    [] x[1] = "peer-disconnected" -> handlePeerDisconnected(rm, e, x[2])
                    [] x[1] = "remote-stream-added" -> handleRemoteStreamAdded(rm, e, x[2])
                    [] OTHER -> rm
       IN dispatchEvents(rm1, e, ev \ {x})

\* ------------------------------------------------ local capture (WebRTCManager)
\* The constraints of a getUserMedia request, as one word.
Constraints(audio, video) ==
  IF audio /\ video THEN "audio+video"
  ELSE IF audio THEN "audio" ELSE IF video THEN "video" ELSE "none"

\* The stream getUserMedia resolves with: a track per requested kind, enabled.
NewStream(audio, video) ==
  [audio |-> audio, video |-> video, live |-> TRUE,
   audioEnabled |-> audio, videoEnabled |-> video]

validConstraintsSkipped(audio, video) == TRUE

\* if (!audio && !video) throw new Error('At least one of audio or video must be requested')
validConstraints(audio, video) == audio \/ video

\* initializeLocalStream(audio, video) up to its await of getUserMedia
InitializeLocalStream(audio, video) ==
  /\ gumCalls < MaxAttempts
  /\ IF validConstraints(audio, video)
     THEN /\ gum' = gum (+) SetToBag({[e |-> LocalUser, audio |-> audio, video |-> video]})
          /\ gumCalls' = gumCalls + 1
          /\ lastAct' = Act("initializeLocalStream", LocalUser, Constraints(audio, video),
                            "pending", {})
     ELSE /\ UNCHANGED <<gum, gumCalls>>
          /\ lastAct' = Act("initializeLocalStream", LocalUser, Constraints(audio, video),
                            "threw", {})
  /\ UNCHANGED <<localStream, isInitialized, captures>>
  /\ UNCHANGED <<mgrVars, callVars, shareVars, sessionVars, roomVars>>

\* The timer set now fires within the run.
TimerFits == clock + JoinDelay <= DedupWindow + MaxTicks * 1000

initializeStudentMediaSkipped(rm, s, now) == rm

\* initializeStudentMedia after its await of initializeMedia, which returns true
\* or false and never throws: setTimeout(() => { sendJoinRequest(); }, 2000)
initializeStudentMedia(rm, s, now) ==
  IF rm[s].join = "media"
  THEN [rm EXCEPT ![s].join = "timer", ![s].due = now + JoinDelay]
  ELSE rm

\* getUserMedia resolves: this.localStream = stream; this.isInitialized = true.
\* The browser resolves no request that asks for neither kind.
GetUserMediaResolves(t) ==
  /\ Len(captures) < MaxStreams
  /\ room[t.e].join = "media" => TimerFits
  /\ room' = initializeStudentMedia(room, t.e, clock)
  /\ t.audio \/ t.video
  /\ gum' = gum (-) SetToBag({t})
  /\ captures' = Append(captures, NewStream(t.audio, t.video))
  /\ localStream' = [localStream EXCEPT ![t.e] = Len(captures) + 1]
  /\ isInitialized' = [isInitialized EXCEPT ![t.e] = TRUE]
  /\ lastAct' = Act("initializeLocalStream", t.e, Constraints(t.audio, t.video), "done", {})
  /\ UNCHANGED <<gumCalls, mgrVars, callVars, shareVars, sessionVars>>

\* getUserMedia rejects: catch (error) { throw error; }
GetUserMediaRejects(t) ==
  /\ room[t.e].join = "media" => TimerFits
  /\ room' = initializeStudentMedia(room, t.e, clock)
  /\ gum' = gum (-) SetToBag({t})
  /\ lastAct' = Act("initializeLocalStream", t.e, Constraints(t.audio, t.video), "threw", {})
  /\ UNCHANGED <<localStream, isInitialized, captures, gumCalls>>
  /\ UNCHANGED <<mgrVars, callVars, shareVars, sessionVars>>

StopLocalStream ==
  /\ IF localStream[LocalUser] # 0
     THEN /\ captures' = [captures EXCEPT ![localStream[LocalUser]].live = FALSE]
          /\ localStream' = [localStream EXCEPT ![LocalUser] = 0]
     ELSE UNCHANGED <<captures, localStream>>
  /\ isInitialized' = [isInitialized EXCEPT ![LocalUser] = FALSE]
  /\ lastAct' = Act("stopLocalStream", LocalUser, LocalUser, "done", {})
  /\ UNCHANGED <<gum, gumCalls, mgrVars, callVars, shareVars, sessionVars, roomVars>>

\* A toggle that stops the tracks it switches off.
updateLocalStreamTracksStopping(cs, ls, audioEnabled, videoEnabled) ==
  IF ls # 0
  THEN [cs EXCEPT ![ls].audioEnabled = cs[ls].audio /\ audioEnabled,
                  ![ls].videoEnabled = cs[ls].video /\ videoEnabled,
                  ![ls].live = audioEnabled \/ videoEnabled]
  ELSE cs

\* updateLocalStreamTracks(audioEnabled, videoEnabled) on the captured streams cs,
\* ls being this.localStream: track.enabled = ... for each track of either kind
updateLocalStreamTracks(cs, ls, audioEnabled, videoEnabled) ==
  IF ls # 0
  THEN [cs EXCEPT ![ls].audioEnabled = cs[ls].audio /\ audioEnabled,
                  ![ls].videoEnabled = cs[ls].video /\ videoEnabled]
  ELSE cs

UpdateLocalStreamTracks(audioEnabled, videoEnabled) ==
  /\ captures' = updateLocalStreamTracks(captures, localStream[LocalUser],
                                         audioEnabled, videoEnabled)
  /\ lastAct' = Act("updateLocalStreamTracks", LocalUser, LocalUser, "done", {})
  /\ UNCHANGED <<localStream, isInitialized, gum, gumCalls>>
  /\ UNCHANGED <<mgrVars, callVars, shareVars, sessionVars, roomVars>>

\* ------------------------------------------- initializeMedia (ClassRoom.tsx)
\* What the awaited getUserMedia of one attempt does.
Outcomes == {"ok", "OverconstrainedError", "NotAllowedError"}

\* One run of initializeMedia: the await it is suspended at (phase), the
\* constraints of the attempt under way, what it returned (result), and what
\* it has done so far: the constraints it was called with (want), those of its
\* attempts in order (tried), how many of them failed, and whether it entered
\* initializeMediaWithFallback (fellBack).
NoAcquisition ==
  [phase |-> "idle", audio |-> FALSE, video |-> FALSE, result |-> "none",
   want |-> "none", tried |-> <<>>, failed |-> 0, fellBack |-> FALSE]

\* await webRTCManager.initializeLocalStream(audio, video) in the given phase
attempt(m, phase, audio, video) ==
  [m EXCEPT !.phase = phase, !.audio = audio, !.video = video,
            !.tried = Append(@, Constraints(audio, video))]

\* return true / return false
returns(m, result) == [m EXCEPT !.phase = "done", !.result = result]

\* initializeMedia(audio, video) up to its first await
initializeMedia(audio, video, supported) ==
  LET m == [NoAcquisition EXCEPT !.want = Constraints(audio, video)]
  IN IF ~supported THEN returns(m, "false")
     ELSE attempt(m, "first", audio \/ ~video, video)

\* initializeMediaWithFallback(audio, video) up to its await
initializeMediaWithFallback(m, audio, video) ==
  LET a == audio \/ ~video
      m1 == [m EXCEPT !.fellBack = TRUE]
  IN IF video THEN attempt(m1, "video", a, TRUE)
     ELSE attempt(m1, "audio", a, FALSE)

\* The awaited initializeLocalStream of the run m settles with the outcome o:
\* the rest of initializeMedia / initializeMediaWithFallback up to the next
\* await or to the return.
mediaSettles(m, o) ==
  IF o = "ok" THEN returns(m, "true")
  ELSE LET m1 == [m EXCEPT !.failed = @ + 1]
       IN CASE m.phase = "first" ->
                 IF o = "OverconstrainedError"
                 THEN initializeMediaWithFallback(m1, m.audio, m.video)
                 ELSE returns(m1, "false")
            [] m.phase = "video" -> initializeMediaWithFallback(m1, m.audio, FALSE)
            [] OTHER -> returns(m1, "false")

\* ------------------------------------------------------ EnhancedScreenShare
NoTimer == [state |-> "null", sid |-> 0, kind |-> "none"]

\* The fields of a new EnhancedScreenShare, and for each kind the value of the
\* last mute-change notification since lastMuteState was last set as a whole.
NewScreenShare ==
  [localStream |-> 0, isSharing |-> FALSE,
   lastMuteState |-> [video |-> "unset", audio |-> "unset"],
   muteDebounceTimer |-> NoTimer, eventListeners |-> {},
   notified |-> [video |-> "none", audio |-> "none"]]

\* The stream getDisplayMedia resolves with: a video track, an audio track when
\* the user shares audio, and the listeners registered on its tracks.
NewDisplay(audio) ==
  [video |-> "live", audio |-> IF audio THEN "live" ELSE "none", enabled |-> TRUE,
   listeners |-> {}]

Kinds(d) == {"video"} \cup (IF d.audio = "none" THEN {} ELSE {"audio"})

\* The listeners startScreenShare registers on the tracks of display sid.
ListenersOf(sid, d) ==
  {<<sid, "video", "ended-by-ui">>}
    \cup {<<sid, k, type>> : k \in Kinds(d), type \in {"mute", "unmute", "ended"}}

Muted(enabled) == IF enabled THEN "unmuted" ELSE "muted"

\* startScreenShare() after getDisplayMedia has resolved
startScreenShare(sh, ds, audio) ==
  LET sid == Len(ds) + 1
      d == NewDisplay(audio)
  IN [share |-> [sh EXCEPT !.localStream = sid,
                           !.isSharing = TRUE,
                           !.lastMuteState = [video |-> Muted(d.enabled),
                                              audio |-> IF audio THEN Muted(d.enabled)
                                                        ELSE "muted"],
                           !.eventListeners = @ \cup ListenersOf(sid, d),
                           !.notified = [video |-> "none", audio |-> "none"]],
      displays |-> Append(ds, [d EXCEPT !.listeners = ListenersOf(sid, d)]),
      ev |-> {}]

shouldDispatchEndedAlways(isSharing) == TRUE

\* if (this.isSharing) window.dispatchEvent(new CustomEvent('screenshare-ended'))
shouldDispatchEnded(isSharing) == isSharing

\* stopScreenShare()
stopScreenShare(sh, ds) ==
  LET sid == sh.localStream
      ds1 == IF sid # 0
             THEN [ds EXCEPT ![sid].listeners = @ \ sh.eventListeners,
                             ![sid].video = "ended",
                             ![sid].audio = IF @ = "none" THEN "none" ELSE "ended"]
             ELSE ds
      sh1 == [sh EXCEPT !.eventListeners = {},
                        !.muteDebounceTimer = NoTimer,
                        !.localStream = 0,
                        !.isSharing = FALSE,
                        !.lastMuteState = [video |-> "unset", audio |-> "unset"],
                        !.notified = [video |-> "none", audio |-> "none"]]
  IN [share |-> sh1, displays |-> ds1,
      ev |-> IF shouldDispatchEnded(sh1.isSharing) THEN {<<"screenshare-ended", "none">>} ELSE {}]

\* handleMute / handleUnmute: the debounce timer is restarted
handleMute(sh, sid, kind) ==
  [sh EXCEPT !.muteDebounceTimer = [state |-> "pending", sid |-> sid, kind |-> kind]]

\* A timer callback that dispatches without recording the state it reports.
muteDebouncedForgetting(sh, ds) ==
  LET tm == sh.muteDebounceTimer
      currentMuted == Muted(ds[tm.sid].enabled)
      changed == currentMuted # sh.lastMuteState[tm.kind]
  IN [share |-> [sh EXCEPT !.muteDebounceTimer.state = "fired",
                           !.notified[tm.kind] = IF changed THEN currentMuted ELSE @],
      displays |-> ds,
      ev |-> IF changed THEN {<<"screenshare-mute-change", tm.kind>>} ELSE {}]

\* The debounce timer's callback
muteDebounced(sh, ds) ==
  LET tm == sh.muteDebounceTimer
      currentMuted == Muted(ds[tm.sid].enabled)
      changed == currentMuted # sh.lastMuteState[tm.kind]
  IN [share |-> [sh EXCEPT !.muteDebounceTimer.state = "fired",
                           !.lastMuteState[tm.kind] = currentMuted,
                           !.notified[tm.kind] = IF changed THEN currentMuted ELSE @],
      displays |-> ds,
      ev |-> IF changed THEN {<<"screenshare-mute-change", tm.kind>>} ELSE {}]

DidShare(out, op) ==
  /\ share' = out.share
  /\ displays' = out.displays
  /\ lastAct' = Act(op, LocalUser, LocalUser, "done", out.ev)

\* startScreenShare() up to its await of getDisplayMedia
StartScreenShare ==
  /\ Len(displays) + sharePending < MaxShares
  /\ sharePending' = sharePending + 1
  /\ lastAct' = Act("startScreenShare", LocalUser, LocalUser, "pending", {})
  /\ UNCHANGED <<share, displays, mgrVars, callVars, mediaVars, roomVars, sessionVars>>

GetDisplayMediaResolves(audio) ==
  /\ sharePending > 0
  /\ sharePending' = sharePending - 1
  /\ DidShare(startScreenShare(share, displays, audio), "startScreenShare")
  /\ UNCHANGED <<mgrVars, callVars, mediaVars, roomVars, sessionVars>>

\* The user dismisses the picker: catch (error) { throw error; }
GetDisplayMediaRejects ==
  /\ sharePending > 0
  /\ sharePending' = sharePending - 1
  /\ lastAct' = Act("startScreenShare", LocalUser, LocalUser, "threw", {})
  /\ UNCHANGED <<share, displays, mgrVars, callVars, mediaVars, roomVars, sessionVars>>

StopScreenShare ==
  /\ DidShare(stopScreenShare(share, displays), "stopScreenShare")
  /\ UNCHANGED <<sharePending, mgrVars, callVars, mediaVars, roomVars, sessionVars>>

\* The browser fires mute or unmute on a live track that still has the listener.
TrackMuteEvent(sid, kind, type) ==
  /\ displays[sid][kind] = "live"
  /\ <<sid, kind, type>> \in displays[sid].listeners
  /\ share' = handleMute(share, sid, kind)
  /\ lastAct' = Act(type, LocalUser, LocalUser, "done", {})
  /\ UNCHANGED <<displays, sharePending, mgrVars, callVars, mediaVars, roomVars, sessionVars>>

DebounceFires ==
  /\ share.muteDebounceTimer.state = "pending"
  /\ DidShare(muteDebounced(share, displays), "muteDebounced")
  /\ UNCHANGED <<sharePending, mgrVars, callVars, mediaVars, roomVars, sessionVars>>

\* The capture source ends a track (the user stops sharing in the browser's UI):
\* the first 'ended' listener still registered on it runs stopScreenShare, which
\* removes the others.
TrackEnded(sid, kind) ==
  /\ displays[sid][kind] = "live"
  /\ LET ds == [displays EXCEPT ![sid][kind] = "ended"]
         heard == \E l \in displays[sid].listeners :
                    l[2] = kind /\ l[3] \in {"ended", "ended-by-ui"}
     IN IF heard THEN DidShare(stopScreenShare(share, ds), "ended")
        ELSE DidShare([share |-> share, displays |-> ds, ev |-> {}], "ended")
  /\ UNCHANGED <<sharePending, mgrVars, callVars, mediaVars, roomVars, sessionVars>>

\* ------------------------------------- signaling listener and router (ClassRoom)
isTeacher(e) == e = Teacher

\* A document of the webrtcSignals collection. Beside the fields the sender
\* writes, the record notes whether the document is still in the collection, how
\* often a snapshot has reported it as added, the time of the first of these
\* snapshots, the signal whose processing published it (0: none), the
\* document the transport copied it from (0: none), what handleSignalingMessage
\* did with it ("none": not passed to it yet), the time at which it did so and
\* how often it was passed to it.
Signal(id, type, from, to, body, cause, copyOf) ==
  [id |-> id, type |-> type, fromUserId |-> from, targetUserId |-> to, body |-> body,
   present |-> TRUE, seen |-> 0, first |-> 0, cause |-> cause, copyOf |-> copyOf,
   reached |-> "none", at |-> 0, times |-> 0]

\* await addDoc(collection(db, 'webrtcSignals'), {...message})
sendSignalingMessage(st, type, from, to, body, cause) ==
  [st EXCEPT !.signals = Append(@, Signal(Len(@) + 1, type, from, to, body, cause, 0))]

\* The snapshot callback suspended at one of its own awaits.
ListenerTask(e, r, phase, cb) == Task("onSnapshot", e, r, 0, NoDesc, phase, cb)

suppressedNever(now, lastSignalTime) == FALSE

\* A window a third as long.
suppressedBriefly(now, lastSignalTime) == now - lastSignalTime < DedupWindow \div 3

\* if (now - lastSignalTime < 3000) continue;
suppressed(now, lastSignalTime) == now - lastSignalTime < DedupWindow

\* await deleteDoc(doc(db, 'webrtcSignals', signalId)), issued after the dispatch
afterDispatch(st, e, cb) ==
  Spawn([st EXCEPT !.signals[cb.id].present = FALSE],
        ListenerTask(e, st.signals[cb.id].fromUserId, "deleteDoc", cb))

\* initiateConnectionWithStudent(studentId) up to the first await inside createOffer
initiateConnectionWithStudent(st, e, r, cb) ==
  createOfferCall([st EXCEPT !.offerCalls = Append(@, [rid |-> r, now |-> cb.now,
                                                         cause |-> cb.id])],
                  e, r, cb)

dispatchesAnswerNever(e) == FALSE

\* case 'answer': if (isTeacher)
dispatchesAnswer(e) == isTeacher(e)

isOwnSignalNever(e, from) == FALSE

\* if (signal.fromUserId === currentUser?.uid) return;
isOwnSignal(e, from) == from = e

dispatchesOfferAlways(e) == TRUE

\* case 'offer': if (!isTeacher)
dispatchesOffer(e) == ~isTeacher(e)

\* The observer's note of what handleSignalingMessage does with the signal.
noteReached(st, id, what) ==
  [st EXCEPT !.signals[id].reached = what, !.signals[id].at = clock,
             !.signals[id].times = @ + 1]

\* handleSignalingMessage(signal) up to its first await
handleSignalingMessage(st, e, cb) ==
  LET s == st.signals[cb.id]
      from == s.fromUserId
      skip(why) == Return(noteReached(st, cb.id, why), "skipped", NoDesc)
  IN IF isOwnSignal(e, from) THEN skip("own")
     ELSE CASE s.type = "offer" ->
                 IF dispatchesOffer(e)
                 THEN handleOfferCall(noteReached(st, cb.id, "handleOffer"), e, from, s.body, cb)
                 ELSE skip("role")
            [] s.type = "answer" ->
                 IF dispatchesAnswer(e)
                 THEN handleAnswerCall(noteReached(st, cb.id, "handleAnswer"), e, from, s.body, cb)
                 ELSE skip("role")
            [] s.type = "ice-candidate" ->
                 addIceCandidateCall(noteReached(st, cb.id, "addIceCandidate"), e, from, s.body, cb)
            [] s.type = "join-request" ->
                 IF ~isTeacher(e) THEN skip("role")
                 ELSE IF isConnectionHealthy(st, e, from)
                 THEN Return(noteReached(st, cb.id, "healthy"), "healthy", NoDesc)
                 ELSE initiateConnectionWithStudent(
                        noteReached(st, cb.id, "initiateConnectionWithStudent"), e, from, cb)
            [] OTHER -> skip("type")

\* The loop of the snapshot callback over the added documents ids, from the
\* current one up to the next await.
RECURSIVE runLoop(_, _, _, _)
runLoop(st, e, now, ids) ==
  IF ids = <<>> THEN Return(st, "ended", NoDesc)
  ELSE LET id == Head(ids)
           s == st.signals[id]
           signalKey == <<s.type, s.fromUserId>>
           lastSignalTime == IF signalKey \in DOMAIN st.recentSignalKeys[e]
                             THEN st.recentSignalKeys[e][signalKey] ELSE 0
           st1 == [st EXCEPT !.processedSignalIds[e] = @ \cup {id}]
           st2 == [st1 EXCEPT !.recentSignalKeys[e] = MapSet(@, signalKey, now)]
           cb == [now |-> now, id |-> id, rest |-> Tail(ids)]
       IN IF id \in st.processedSignalIds[e] THEN runLoop(st, e, now, Tail(ids))
          ELSE IF suppressed(now, lastSignalTime) THEN runLoop(st1, e, now, Tail(ids))
          ELSE LET st3 == handleSignalingMessage(st2, e, cb)
               IN IF st3.res = "pending" THEN st3 ELSE afterDispatch(st3, e, cb)

\* A router that sends the answer whatever handleOffer returned.
continueDispatchAnswering(st, t) ==
  IF t.op = "handleOffer"
  THEN Spawn(sendSignalingMessage(st, "answer", t.e, t.rid, st.ret, t.cb.id),
             ListenerTask(t.e, t.rid, "addDoc", t.cb))
  ELSE IF t.op = "createOffer" /\ st.res = "done"
  THEN Spawn(sendSignalingMessage(st, "offer", t.e, t.rid, st.ret, t.cb.id),
             ListenerTask(t.e, t.rid, "addDoc", t.cb))
  ELSE afterDispatch(st, t.e, t.cb)

\* The manager call t, made by handleSignalingMessage, has completed: the rest
\* of handleSignalingMessage and of the loop body up to the next await.
continueDispatch(st, t) ==
  IF t.op = "handleOffer" /\ st.res = "done"
  THEN Spawn(sendSignalingMessage(st, "answer", t.e, t.rid, st.ret, t.cb.id),
             ListenerTask(t.e, t.rid, "addDoc", t.cb))
  ELSE IF t.op = "createOffer" /\ st.res = "done"
  THEN Spawn(sendSignalingMessage(st, "offer", t.e, t.rid, st.ret, t.cb.id),
             ListenerTask(t.e, t.rid, "addDoc", t.cb))
  ELSE afterDispatch(st, t.e, t.cb)

\* One resumption of the manager call t.
managerStep(st, t, ok) ==
  CASE t.op = "createOffer" -> createOfferStep(st, t, ok)
    [] t.op = "handleOffer" -> handleOfferStep(st, t, ok)
    [] t.op = "handleAnswer" -> handleAnswerStep(st, t, ok)
    [] OTHER -> addIceCandidateStep(st, t)

\* A rejection of deleteDoc that ends the snapshot callback.
deleteDocRejectedAborting(st, t) ==
  Return([st EXCEPT !.signals[t.cb.id].present = TRUE], "threw", NoDesc)

\* The awaited deleteDoc of the callback t rejects: catch (error) {
\* console.error('Error deleting signal:', error); }. The document stays in the
\* collection and the loop goes on with the next change.
deleteDocRejected(st, t) ==
  runLoop([st EXCEPT !.signals[t.cb.id].present = TRUE], t.e, t.cb.now, t.cb.rest)

\* One resumption of the snapshot callback t.
listenerStep(st, t) ==
  IF t.phase = "addDoc" THEN afterDispatch(st, t.e, t.cb)
  ELSE runLoop(st, t.e, t.cb.now, t.cb.rest)

\* ------------------------------------------------------------------ Init
Init ==
  /\ pcs = EmptyMap
  /\ peerConnections = [e \in Users |-> EmptyMap]
  /\ remoteStreams = [e \in Users |-> EmptyMap]
  /\ connectionStates = [e \in Users |-> EmptyMap]
  /\ pendingCandidates = [e \in Users |-> EmptyMap]
  /\ localStream = [e \in Users |-> 0]
  /\ isInitialized = [e \in Users |-> FALSE]
  /\ captures = <<>>
  /\ gum = EmptyBag
  /\ gumCalls = 0
  /\ share = NewScreenShare
  /\ displays = <<>>
  /\ sharePending = 0
  /\ signals = <<>>
  /\ clock = DedupWindow
  /\ processedSignalIds = [e \in Users |-> {}]
  /\ recentSignalKeys = [e \in Users |-> EmptyMap]
  /\ offerCalls = <<>>
  /\ tasks = EmptyBag
  /\ nextCand = 1
  /\ owed = [e \in Users |-> [r \in Users |-> <<>>]]
  /\ room = [e \in Users |-> [mounted |-> TRUE, join |-> "idle", due |-> 0,
                                media |-> NoAcquisition,
                             activeConnections |-> {}, remoteStreams |-> {}]]
  /\ lastAct = Act("init", LocalUser, LocalUser, "done", {})

\* ------------------------------------------- the manager driven directly
\* The caller of the manager is the environment: any method, any remote id,
\* at any time, also while other calls are suspended.
otherVars == <<mediaVars, shareVars, sessionVars, roomVars>>

Did(st, op, r) ==
  /\ Commit(st)
  /\ lastAct' = Act(op, LocalUser, r, st.res, st.ev)

TaskAvailable == BagCardinality(tasks) < MaxTasks

\* A call waiting in its grace delay constructs its connection when it resumes.
HandleAvailable ==
  Cardinality(DOMAIN pcs) + Cardinality({t \in BagToSet(tasks) : t.phase = "grace"})
    < MaxHandles

CreateOffer(r) ==
  /\ HandleAvailable /\ TaskAvailable
  /\ Did(createOfferCall(Mgr, LocalUser, r, NoCallback), "createOffer", r)
  /\ UNCHANGED <<otherVars, nextCand>>

HandleOffer(r) ==
  /\ HandleAvailable /\ TaskAvailable
  /\ Did(handleOfferCall(Mgr, LocalUser, r, Desc("offer", 0, TRUE), NoCallback),
         "handleOffer", r)
  /\ UNCHANGED <<otherVars, nextCand>>

HandleAnswer(r) ==
  /\ TaskAvailable
  /\ Did(handleAnswerCall(Mgr, LocalUser, r, Desc("answer", 0, TRUE), NoCallback),
         "handleAnswer", r)
  /\ UNCHANGED <<otherVars, nextCand>>

\* The candidates handed over are well-formed.
AddIceCandidate(r) ==
  /\ TaskAvailable /\ nextCand <= MaxCands
  /\ Did(addIceCandidateCall(Mgr, LocalUser, r, Desc("candidate", nextCand, TRUE), NoCallback),
         "addIceCandidate", r)
  /\ nextCand' = nextCand + 1
  /\ UNCHANGED otherVars

CloseConnection(r) ==
  /\ Did(Return(closeConnection(Mgr, LocalUser, r), "done", NoDesc), "closeConnection", r)
  /\ UNCHANGED <<otherVars, nextCand>>

CloseAllConnections ==
  /\ Did(Return(closeAllConnections(Mgr, LocalUser), "done", NoDesc),
         "closeAllConnections", LocalUser)
  /\ UNCHANGED <<otherVars, nextCand>>

\* A suspended call made by the harness resumes.
Running(t, op) == t.op = op /\ t.cb = NoCallback

CreateOfferResume(t) ==
  /\ Running(t, "createOffer")
  /\ Did(createOfferStep(Take(Mgr, t), t, TRUE), "createOffer", t.rid)
  /\ UNCHANGED <<otherVars, nextCand>>

\* The browser rejects createOffer or setLocalDescription.
CreateOfferRejected(t) ==
  /\ Running(t, "createOffer")
  /\ t.phase # "grace"
  /\ Did(createOfferStep(Take(Mgr, t), t, FALSE), "createOffer", t.rid)
  /\ UNCHANGED <<otherVars, nextCand>>

HandleOfferResume(t) ==
  /\ Running(t, "handleOffer")
  /\ Did(handleOfferStep(Take(Mgr, t), t, TRUE), "handleOffer", t.rid)
  /\ UNCHANGED <<otherVars, nextCand>>

\* The browser rejects setRemoteDescription, createAnswer or setLocalDescription.
HandleOfferRejected(t) ==
  /\ Running(t, "handleOffer")
  /\ t.phase # "grace"
  /\ Did(handleOfferStep(Take(Mgr, t), t, FALSE), "handleOffer", t.rid)
  /\ UNCHANGED <<otherVars, nextCand>>

HandleAnswerResume(t) ==
  /\ Running(t, "handleAnswer")
  /\ Did(handleAnswerStep(Take(Mgr, t), t, TRUE), "handleAnswer", t.rid)
  /\ UNCHANGED <<otherVars, nextCand>>

\* The browser rejects the answer for a reason other than the signalingState.
HandleAnswerRejected(t) ==
  /\ Running(t, "handleAnswer")
  /\ t.phase = "setRemote"
  /\ Did(handleAnswerStep(Take(Mgr, t), t, FALSE), "handleAnswer", t.rid)
  /\ UNCHANGED <<otherVars, nextCand>>

AddIceCandidateResume(t) ==
  /\ Running(t, "addIceCandidate")
  /\ Did(addIceCandidateStep(Take(Mgr, t), t), "addIceCandidate", t.rid)
  /\ UNCHANGED <<otherVars, nextCand>>

\* Whether connection h and the connection its remote description comes from
\* have each other's descriptions and are both open.
Paired(h) ==
  LET o == pcs[h].remoteDesc.h
  IN /\ pcs[h].sig # "closed" /\ pcs[h].localDesc.type # "none"
     /\ o \in DOMAIN pcs
     /\ pcs[o].sig # "closed" /\ pcs[o].localDesc.type # "none"
     /\ pcs[o].remoteDesc.h = h

\* The browser reports a connection state change of a live connection. ICE
\* starts once both descriptions are set, and connects to the paired connection.
ConnectionStateChange(h, s) ==
  /\ pcs[h].sig # "closed"
  /\ <<pcs[h].conn, s>> \in ConnTransitions
  /\ pcs[h].localDesc.type # "none" /\ pcs[h].remoteDesc.type # "none"
  /\ s = "connected" => Paired(h)
  /\ LET st == onconnectionstatechange(Mgr, h, s)
     IN /\ Commit(st)
        /\ room' = dispatchEvents(room, pcs[h].owner, st.ev)
        /\ lastAct' = Act("connectionstatechange", pcs[h].owner, pcs[h].rid, s, st.ev)
  /\ UNCHANGED <<mediaVars, shareVars, sessionVars, nextCand>>

\* The browser delivers the remote side's track.
TrackReceived(h) ==
  /\ Paired(h)
  /\ pcs[h].rid \notin DOMAIN remoteStreams[pcs[h].owner]
  /\ LET st == ontrack(Mgr, h)
     IN /\ Commit(st)
        /\ room' = dispatchEvents(room, pcs[h].owner, st.ev)
        /\ lastAct' = Act("track", pcs[h].owner, pcs[h].rid, "done", st.ev)
  /\ UNCHANGED <<mediaVars, shareVars, sessionVars, nextCand>>

\* ------------------------------------------------ the classroom session
Viewers == {"s1"}

SessionDid(st, op, e, r) ==
  /\ CommitSession(st)
  /\ lastAct' = Act(op, e, r, st.res, st.ev)

\* sendJoinRequest(), which the viewer's auto-join timer calls once
SendJoinRequest(s) ==
  /\ \A i \in 1..Len(signals) :
       ~(signals[i].type = "join-request" /\ signals[i].fromUserId = s
           /\ signals[i].copyOf = 0)
  /\ SessionDid(Return(sendSignalingMessage(Mgr, "join-request", s, Teacher, NoDesc, 0),
                        "done", NoDesc),
                 "sendJoinRequest", s, Teacher)
  /\ UNCHANGED <<clock, nextCand, mediaVars, roomVars, shareVars>>

\* The number of signals the transport has stored or reported a second time.
Duplicated == Cardinality({i \in 1..Len(signals) : signals[i].copyOf # 0 \/ signals[i].seen > 1})

\* The transport stores a signal a second time, under a new id.
TransportDuplicates(id) ==
  /\ Duplicated < MaxDuplicates
  /\ LET s == signals[id]
     IN signals' = Append(signals, Signal(Len(signals) + 1, s.type, s.fromUserId,
                                           s.targetUserId, s.body, s.cause, id))
  /\ lastAct' = Act("duplicate", signals[id].fromUserId, signals[id].targetUserId, "done", {})
  /\ UNCHANGED <<clock, processedSignalIds, recentSignalKeys, offerCalls>>
  /\ UNCHANGED <<mgrVars, callVars, mediaVars, roomVars, shareVars>>

Tick ==
  /\ clock < DedupWindow + MaxTicks * 1000
  /\ clock' = clock + 1000
  /\ lastAct' = Act("tick", LocalUser, LocalUser, "done", {})
  /\ UNCHANGED <<signals, processedSignalIds, recentSignalKeys, offerCalls>>
  /\ UNCHANGED <<mgrVars, callVars, mediaVars, roomVars, shareVars>>

\* The documents of the listener's query that no snapshot has reported yet.
FreshFor(e) ==
  {i \in 1..Len(signals) :
     signals[i].targetUserId = e /\ signals[i].present /\ signals[i].seen = 0}

\* orderBy('createdAt', 'desc')
RECURSIVE Descending(_)
Descending(ids) ==
  IF ids = {} THEN <<>>
  ELSE LET m == CHOOSE i \in ids : \A j \in ids : j <= i
       IN <<m>> \o Descending(ids \ {m})

RECURSIVE Reported(_, _, _)
Reported(st, ids, now) ==
  IF ids = {} THEN st
  ELSE LET i == CHOOSE j \in ids : TRUE
       IN Reported([st EXCEPT !.signals[i].seen = @ + 1,
                              !.signals[i].first = IF @ = 0 THEN now ELSE @],
                   ids \ {i}, now)

\* onSnapshot's callback: a snapshot reports the new documents as added.
SnapshotArrives(e) ==
  /\ FreshFor(e) # {} /\ TaskAvailable /\ HandleAvailable
  /\ \E st \in {runLoop(Reported(Mgr, FreshFor(e), clock), e, clock, Descending(FreshFor(e)))} :
        SessionDid(st, "onSnapshot", e, e)
  /\ UNCHANGED <<clock, nextCand, mediaVars, roomVars, shareVars>>

\* A snapshot reports as added a document that an earlier one reported already.
SnapshotRepeats(e, id) ==
  /\ signals[id].targetUserId = e /\ signals[id].present
  /\ signals[id].seen = 1 /\ Duplicated < MaxDuplicates
  /\ TaskAvailable /\ HandleAvailable
  /\ \E st \in {runLoop(Reported(Mgr, {id}, clock), e, clock, <<id>>)} :
        SessionDid(st, "onSnapshot", e, e)
  /\ UNCHANGED <<clock, nextCand, mediaVars, roomVars, shareVars>>

\* A manager call made by the router resumes; when it completes, the router and
\* the listener run on to their next await.
ManagerCallResumes(t) ==
  /\ t.cb # NoCallback /\ t.op # "onSnapshot"
  /\ \E st \in {managerStep(Take(Mgr, t), t, TRUE)} :
        \E st1 \in {IF st.res = "pending" THEN st ELSE continueDispatch(st, t)} :
           SessionDid(st1, t.op, t.e, t.rid)
  /\ UNCHANGED <<clock, nextCand, mediaVars, roomVars, shareVars>>

\* The listener resumes from addDoc or deleteDoc.
ListenerResumes(t) ==
  /\ t.op = "onSnapshot"
  /\ t.phase = "deleteDoc" => HandleAvailable
  /\ \E st \in {listenerStep(Take(Mgr, t), t)} : SessionDid(st, "onSnapshot", t.e, t.rid)
  /\ UNCHANGED <<clock, nextCand, mediaVars, roomVars, shareVars>>

Next ==
  \/ \E r \in Remotes : CreateOffer(r)
  \/ \E r \in Remotes : HandleOffer(r)
  \/ \E r \in Remotes : HandleAnswer(r)
  \/ \E r \in Remotes : AddIceCandidate(r)
  \/ \E r \in Remotes : CloseConnection(r)
  \/ CloseAllConnections
  \/ \E t \in BagToSet(tasks) : CreateOfferResume(t)
  \/ \E t \in BagToSet(tasks) : CreateOfferRejected(t)
  \/ \E t \in BagToSet(tasks) : HandleOfferResume(t)
  \/ \E t \in BagToSet(tasks) : HandleOfferRejected(t)
  \/ \E t \in BagToSet(tasks) : HandleAnswerResume(t)
  \/ \E t \in BagToSet(tasks) : HandleAnswerRejected(t)
  \/ \E t \in BagToSet(tasks) : AddIceCandidateResume(t)

Spec == Init /\ [][Next]_vars

\* The handshake: one viewer joins, the transport may repeat answers, nothing fails.
NextHandshake ==
  \/ \E s \in Viewers : SendJoinRequest(s)
  \/ \E id \in 1..Len(signals) : signals[id].type = "answer" /\ TransportDuplicates(id)
  \/ Tick
  \/ \E e \in Users : SnapshotArrives(e)
  \/ \E e \in Users, id \in 1..Len(signals) : SnapshotRepeats(e, id)
  \/ \E t \in BagToSet(tasks) : ManagerCallResumes(t)
  \/ \E t \in BagToSet(tasks) : ListenerResumes(t)
  \/ \E h \in DOMAIN pcs, s \in {"connecting", "connected"} : ConnectionStateChange(h, s)

\* What the viewer's timer, the transport, the browser and ICE do on their own.
Progress ==
  \/ \E s \in Viewers : SendJoinRequest(s)
  \/ \E e \in Users : SnapshotArrives(e)
  \/ \E t \in BagToSet(tasks) : ManagerCallResumes(t)
  \/ \E t \in BagToSet(tasks) : ListenerResumes(t)
  \/ \E h \in DOMAIN pcs, s \in {"connecting", "connected"} : ConnectionStateChange(h, s)

\* Timers fire, snapshots arrive, awaited promises settle and ICE makes progress.
SpecHandshake == Init /\ [][NextHandshake]_vars /\ WF_vars(Progress)

\* The session with a transport that may repeat any signal.
NextSession ==
  \/ \E s \in Viewers : SendJoinRequest(s)
  \/ \E id \in 1..Len(signals) : TransportDuplicates(id)
  \/ Tick
  \/ \E e \in Users : SnapshotArrives(e)
  \/ \E e \in Users, id \in 1..Len(signals) : SnapshotRepeats(e, id)
  \/ \E t \in BagToSet(tasks) : ManagerCallResumes(t)
  \/ \E t \in BagToSet(tasks) : ListenerResumes(t)
  \/ \E h \in DOMAIN pcs, s \in {"connecting", "connected"} : ConnectionStateChange(h, s)

SpecSession == Init /\ [][NextSession]_vars

\* --------------------------------------------- local capture driven directly
NextMedia ==
  \/ \E audio \in BOOLEAN, video \in BOOLEAN : InitializeLocalStream(audio, video)
  \/ \E t \in BagToSet(gum) : GetUserMediaResolves(t)
  \/ \E t \in BagToSet(gum) : GetUserMediaRejects(t)
  \/ StopLocalStream
  \/ \E audio \in BOOLEAN, video \in BOOLEAN : UpdateLocalStreamTracks(audio, video)

SpecMedia == Init /\ [][NextMedia]_vars

\* ----------------------------------------------- screen share driven directly
NextShare ==
  \/ StartScreenShare
  \/ \E audio \in BOOLEAN : GetDisplayMediaResolves(audio)
  \/ GetDisplayMediaRejects
  \/ StopScreenShare
  \/ \E sid \in 1..Len(displays), kind \in {"video", "audio"}, type \in {"mute", "unmute"} :
       TrackMuteEvent(sid, kind, type)
  \/ DebounceFires
  \/ \E sid \in 1..Len(displays), kind \in {"video", "audio"} : TrackEnded(sid, kind)

SpecShare == Init /\ [][NextShare]_vars

\* ------------------------------------------------ the router on its own
\* The collection is shared: a document of any type, from any sender, to any
\* participant may appear in it.
SignalTypes == {"offer", "answer", "ice-candidate", "join-request"}
Parties == {Teacher} \cup Viewers

Delivered == Cardinality({i \in 1..Len(signals) : signals[i].cause = 0 /\ signals[i].copyOf = 0})

BodyOf(type) ==
  CASE type = "offer" -> Desc("offer", 0, TRUE)
    [] type = "answer" -> Desc("answer", 0, TRUE)
    [] type = "ice-candidate" -> Desc("candidate", nextCand, TRUE)
    [] OTHER -> NoDesc

TransportDelivers(type, from, to) ==
  /\ Delivered < MaxStray
  /\ type = "ice-candidate" => nextCand <= MaxCands
  /\ signals' = Append(signals, Signal(Len(signals) + 1, type, from, to, BodyOf(type), 0, 0))
  /\ nextCand' = IF type = "ice-candidate" THEN nextCand + 1 ELSE nextCand
  /\ lastAct' = Act("deliver", from, to, "done", {})
  /\ UNCHANGED <<clock, processedSignalIds, recentSignalKeys, offerCalls>>
  /\ UNCHANGED <<mgrVars, tasks, owed, mediaVars, roomVars, shareVars>>

NextRouter ==
  \/ \E type \in SignalTypes, from \in Parties, to \in Parties : TransportDelivers(type, from, to)
  \/ Tick
  \/ \E e \in Users : SnapshotArrives(e)
  \/ \E t \in BagToSet(tasks) : ManagerCallResumes(t)
  \/ \E t \in BagToSet(tasks) : ListenerResumes(t)

SpecRouter == Init /\ [][NextRouter]_vars

\* ------------------------------------------- one sender, one listener
\* A viewer publishes signals of any type to the presenter, at any time.
Sent(s) == Cardinality({i \in 1..Len(signals) : signals[i].fromUserId = s /\ signals[i].copyOf = 0})

ViewerPublishes(s, type) ==
  /\ Sent(s) < MaxSent
  /\ type = "ice-candidate" => nextCand <= MaxCands
  /\ signals' = Append(signals, Signal(Len(signals) + 1, type, s, Teacher, BodyOf(type), 0, 0))
  /\ nextCand' = IF type = "ice-candidate" THEN nextCand + 1 ELSE nextCand
  /\ lastAct' = Act("publish", s, Teacher, "done", {})
  /\ UNCHANGED <<clock, processedSignalIds, recentSignalKeys, offerCalls>>
  /\ UNCHANGED <<mgrVars, tasks, owed, mediaVars, roomVars, shareVars>>

NextDedup ==
  \/ \E s \in Viewers, type \in SignalTypes : ViewerPublishes(s, type)
  \/ Tick
  \/ SnapshotArrives(Teacher)
  \/ \E id \in 1..Len(signals) : SnapshotRepeats(Teacher, id)
  \/ \E t \in BagToSet(tasks) : ManagerCallResumes(t)
  \/ \E t \in BagToSet(tasks) : ListenerResumes(t)

SpecDedup == Init /\ [][NextDedup]_vars

\* ------------------------------------------ entering and leaving the classroom
\* The viewer's auto-join effect runs: initializeStudentMedia() calls
\* initializeMedia(true, false), which returns false at once when the browser has
\* no navigator.mediaDevices.getUserMedia and otherwise awaits
\* initializeLocalStream(true, false).
StudentAutoJoin(s, supported) ==
  /\ ~isTeacher(s) /\ room[s].mounted /\ room[s].join = "idle"
  /\ IF supported
     THEN /\ gumCalls < MaxAttempts
          /\ gum' = gum (+) SetToBag({[e |-> s, audio |-> TRUE, video |-> FALSE]})
          /\ gumCalls' = gumCalls + 1
          /\ room' = [room EXCEPT ![s].join = "media"]
          /\ lastAct' = Act("initializeMedia", s, Constraints(TRUE, FALSE), "pending", {})
     ELSE /\ TimerFits
          /\ room' = initializeStudentMedia([room EXCEPT ![s].join = "media"], s, clock)
          /\ lastAct' = Act("initializeMedia", s, Constraints(TRUE, FALSE), "unsupported", {})
          /\ UNCHANGED <<gum, gumCalls>>
  /\ UNCHANGED <<localStream, isInitialized, captures>>
  /\ UNCHANGED <<mgrVars, callVars, shareVars, sessionVars>>

\* The auto-join timer fires: sendJoinRequest(), which returns at once for the
\* presenter. Nothing clears the timer.
JoinTimerFires(s) ==
  /\ room[s].join = "timer" /\ clock >= room[s].due
  /\ room' = [room EXCEPT ![s].join = "sent"]
  /\ \E st \in {IF isTeacher(s) THEN Mgr
                ELSE sendSignalingMessage(Mgr, "join-request", s, Teacher, NoDesc, 0)} :
        SessionDid(Return(st, "done", NoDesc), "sendJoinRequest", s, Teacher)
  /\ UNCHANGED <<clock, nextCand, mediaVars, shareVars>>

\* The component of participant e unmounts (it leaves, or handleEndClass has
\* navigated away): the cleanups stop the local stream, close every connection
\* and stop the screen share.
Unmount(e) ==
  /\ room[e].mounted
  /\ room' = [room EXCEPT ![e].mounted = FALSE]
  /\ IF localStream[e] # 0
     THEN /\ captures' = [captures EXCEPT ![localStream[e]].live = FALSE]
          /\ localStream' = [localStream EXCEPT ![e] = 0]
     ELSE UNCHANGED <<captures, localStream>>
  /\ isInitialized' = [isInitialized EXCEPT ![e] = FALSE]
  /\ LET st == closeAllConnections(Mgr, e)
         out == IF e = LocalUser THEN stopScreenShare(share, displays)
                ELSE [share |-> share, displays |-> displays, ev |-> {}]
     IN /\ Commit(st)
        /\ share' = out.share
        /\ displays' = out.displays
        /\ lastAct' = Act("unmount", e, e, "done", st.ev \cup out.ev)
  /\ UNCHANGED <<gum, gumCalls, sharePending, nextCand, sessionVars>>

NextJoin ==
  \/ \E s \in Students, supported \in BOOLEAN : StudentAutoJoin(s, supported)
  \/ \E t \in BagToSet(gum) : GetUserMediaResolves(t)
  \/ \E t \in BagToSet(gum) : GetUserMediaRejects(t)
  \/ Tick
  \/ \E s \in Students : JoinTimerFires(s)
  \/ \E e \in Users : Unmount(e)

\* Time passes, and the browser runs a timer callback that is due.
SpecJoin ==
  Init /\ [][NextJoin]_vars /\ WF_vars(Tick) /\ WF_vars(\E s \in Students : JoinTimerFires(s))

\* ------------------------------------------------ the link after the handshake
\* One handshake, after which the browser reports any connection state change
\* and delivers the remote tracks.
NextLink ==
  \/ \E s \in Viewers : SendJoinRequest(s)
  \/ \E e \in Users : SnapshotArrives(e)
  \/ \E t \in BagToSet(tasks) : ManagerCallResumes(t)
  \/ \E t \in BagToSet(tasks) : ListenerResumes(t)
  \/ \E h \in DOMAIN pcs, s \in {"connecting", "connected", "disconnected", "failed"} :
       ConnectionStateChange(h, s)
  \/ \E h \in DOMAIN pcs : TrackReceived(h)

SpecLink == Init /\ [][NextLink]_vars

\* --------------------------- the manager driven directly, with two remote ids
NextPeers ==
  \/ \E r \in Students : CreateOffer(r)
  \/ \E r \in Students : HandleOffer(r)
  \/ \E r \in Students : HandleAnswer(r)
  \/ \E r \in Students : AddIceCandidate(r)
  \/ \E r \in Students : CloseConnection(r)
  \/ \E t \in BagToSet(tasks) : CreateOfferResume(t)
  \/ \E t \in BagToSet(tasks) : CreateOfferRejected(t)
  \/ \E t \in BagToSet(tasks) : HandleOfferResume(t)
  \/ \E t \in BagToSet(tasks) : HandleOfferRejected(t)
  \/ \E t \in BagToSet(tasks) : HandleAnswerResume(t)
  \/ \E t \in BagToSet(tasks) : HandleAnswerRejected(t)
  \/ \E t \in BagToSet(tasks) : AddIceCandidateResume(t)

SpecPeers == Init /\ [][NextPeers]_vars

\* ------------------- the manager driven directly, with unusable candidates too
\* A candidate the browser cannot parse or apply is handed over.
AddUnusableCandidate(r) ==
  /\ TaskAvailable /\ nextCand <= MaxCands
  /\ Did(addIceCandidateCall(Mgr, LocalUser, r, Desc("candidate", nextCand, FALSE), NoCallback),
         "addIceCandidate", r)
  /\ nextCand' = nextCand + 1
  /\ UNCHANGED otherVars

NextCandidates ==
  \/ Next
  \/ \E r \in Remotes : AddUnusableCandidate(r)

SpecCandidates == Init /\ [][NextCandidates]_vars

\* ------------------------------------- the session with failing browser calls
\* A manager call made by the router resumes with its awaited promise rejected
\* (createOffer, createAnswer, setLocalDescription or setRemoteDescription).
ManagerCallRejected(t) ==
  /\ t.cb # NoCallback /\ t.op \in {"createOffer", "handleOffer"}
  /\ t.phase # "grace"
  /\ \E st \in {managerStep(Take(Mgr, t), t, FALSE)} :
        \E st1 \in {IF st.res = "pending" THEN st ELSE continueDispatch(st, t)} :
           SessionDid(st1, t.op, t.e, t.rid)
  /\ UNCHANGED <<clock, nextCand, mediaVars, roomVars, shareVars>>

NextFailures ==
  \/ NextSession
  \/ \E t \in BagToSet(tasks) : ManagerCallRejected(t)

SpecFailures == Init /\ [][NextFailures]_vars

\* ------------------------------- the handshake while the teacher toggles tracks
NextToggle ==
  \/ \E s \in Viewers : SendJoinRequest(s)
  \/ \E e \in Users : SnapshotArrives(e)
  \/ \E t \in BagToSet(tasks) : ManagerCallResumes(t)
  \/ \E t \in BagToSet(tasks) : ListenerResumes(t)
  \/ \E audio \in BOOLEAN, video \in BOOLEAN : InitializeLocalStream(audio, video)
  \/ \E t \in BagToSet(gum) : GetUserMediaResolves(t)
  \/ \E t \in BagToSet(gum) : GetUserMediaRejects(t)
  \/ \E audio \in BOOLEAN, video \in BOOLEAN : UpdateLocalStreamTracks(audio, video)

SpecToggle == Init /\ [][NextToggle]_vars

\* ------------------------------------------------- acquiring the local media
\* initializeMedia(audio, video) is called (by an effect, a toggle, retryMedia or
\* one of the media buttons) while no call of it is under way.
InitializeMedia(audio, video, supported) ==
  /\ room[LocalUser].media.phase \in {"idle", "done"}
  /\ room' = [room EXCEPT ![LocalUser].media = initializeMedia(audio, video, supported)]
  /\ lastAct' = Act("initializeMedia", LocalUser, Constraints(audio, video),
                    IF supported THEN "pending" ELSE "unsupported", {})
  /\ UNCHANGED <<mgrVars, callVars, mediaVars, shareVars, sessionVars>>

\* The getUserMedia awaited by initializeLocalStream settles; on success the
\* manager keeps the stream (this.localStream = stream; this.isInitialized = true).
MediaSettles(o) ==
  LET m == room[LocalUser].media
  IN /\ m.phase \in {"first", "video", "audio"}
     /\ room' = [room EXCEPT ![LocalUser].media = mediaSettles(m, o)]
     /\ IF o = "ok"
        THEN /\ Len(captures) < MaxStreams
             /\ captures' = Append(captures, NewStream(m.audio, m.video))
             /\ localStream' = [localStream EXCEPT ![LocalUser] = Len(captures) + 1]
             /\ isInitialized' = [isInitialized EXCEPT ![LocalUser] = TRUE]
        ELSE UNCHANGED <<captures, localStream, isInitialized>>
     /\ lastAct' = Act("initializeMedia", LocalUser, Constraints(m.audio, m.video), o, {})
     /\ UNCHANGED <<gum, gumCalls, mgrVars, callVars, shareVars, sessionVars>>

NextAcquire ==
  \/ \E audio \in BOOLEAN, video \in BOOLEAN, supported \in BOOLEAN :
        InitializeMedia(audio, video, supported)
  \/ \E o \in Outcomes : MediaSettles(o)
  \/ StopLocalStream

SpecAcquire == Init /\ [][NextAcquire]_vars

\* ------------------------------------------ the router with failing deletions
\* The listener resumes from a deleteDoc that the transport has rejected.
DeleteFails(t) ==
  /\ t.op = "onSnapshot" /\ t.phase = "deleteDoc"
  /\ HandleAvailable
  /\ \E st \in {deleteDocRejected(Take(Mgr, t), t)} : SessionDid(st, "deleteDocRejected", t.e, t.rid)
  /\ UNCHANGED <<clock, nextCand, mediaVars, roomVars, shareVars>>

NextDeletions ==
  \/ \E s \in Viewers, type \in SignalTypes : ViewerPublishes(s, type)
  \/ SnapshotArrives(Teacher)
  \/ \E t \in BagToSet(tasks) : ManagerCallResumes(t)
  \/ \E t \in BagToSet(tasks) : ListenerResumes(t)
  \/ \E t \in BagToSet(tasks) : DeleteFails(t)

SpecDeletions == Init /\ [][NextDeletions]_vars

\* -------------------------------- the link while the presenter closes sessions
\* One handshake and the link's events, while the presenter's component closes
\* the session (closeConnection, closeAllConnections), starts it again
\* (createOffer) or applies an answer (handleAnswer) at any time.
NextChurn ==
  \/ NextLink
  \/ \E r \in Viewers : CreateOffer(r)
  \/ \E r \in Viewers : HandleAnswer(r)
  \/ \E r \in Viewers : CloseConnection(r)
  \/ CloseAllConnections
  \/ \E t \in BagToSet(tasks) : CreateOfferResume(t)
  \/ \E t \in BagToSet(tasks) : HandleAnswerResume(t)

SpecChurn == Init /\ [][NextChurn]_vars

\* ================================================================ claims
Handles == DOMAIN pcs
Live(e, r) == {h \in Handles : pcs[h].owner = e /\ pcs[h].rid = r /\ pcs[h].sig # "closed"}
InFlight(e, r) == \E t \in BagToSet(tasks) : t.e = e /\ t.rid = r
HasSession(e, r) == r \in DOMAIN peerConnections[e]
SessionOf(e, r) == pcs[peerConnections[e][r]]

\* C1: for every remote id at most one connection that is not closed exists, and
\* it is the one stored in peerConnections; a connection replaced by createOffer or
\* handleOffer was closed before the new one was stored.
C1_AtMostOneLiveConnection ==
  \A e \in Users, r \in Users :
    /\ Cardinality(Live(e, r)) <= 1
    /\ Live(e, r) = IF HasSession(e, r) THEN {peerConnections[e][r]} ELSE {}

\* createOffer or handleOffer has replaced a connection that a suspended call
\* still holds: the old one is closed, the new one is open.
C1_Witness ==
  /\ lastAct.op \in {"createOffer", "handleOffer"}
  /\ \E h1, h2 \in Handles :
       /\ h1 # h2 /\ pcs[h1].rid = pcs[h2].rid
       /\ pcs[h1].sig = "closed" /\ pcs[h2].sig # "closed"

\* C2: a handleAnswer call for a session whose signalingState is not
\* have-local-offer changes nothing and starts nothing, and no connection ever
\* has an answer applied to it twice.
C2_AnswerOnlyInHaveLocalOffer ==
  [][/\ \A r \in Remotes :
          (HandleAnswer(r)
             /\ ~(HasSession(LocalUser, r)
                    /\ SessionOf(LocalUser, r).sig = "have-local-offer"))
          => UNCHANGED <<mgrVars, tasks>>
     /\ \A h \in DOMAIN pcs' : pcs'[h].answers <= 1]_vars

\* The second handleAnswer in a row: the answer was applied, the session is
\* stable, and the call returned without doing anything.
C2_Witness ==
  /\ lastAct.op = "handleAnswer" /\ lastAct.res = "noop"
  /\ HasSession(LocalUser, lastAct.rid)
  /\ SessionOf(LocalUser, lastAct.rid).answers = 1
  /\ SessionOf(LocalUser, lastAct.rid).sig = "stable"

\* Whether seq a occurs in seq b in order, each element exactly once in b.
AppliedOnceInOrder(a, b) ==
  /\ \A i \in 1..Len(a) : Cardinality({j \in 1..Len(b) : b[j] = a[i]}) = 1
  /\ \A i1, i2 \in 1..Len(a) : \A j1, j2 \in 1..Len(b) :
       (i1 < i2 /\ b[j1] = a[i1] /\ b[j2] = a[i2]) => j1 < j2

\* C3: once the remote description of a session is set and no call for the
\* remote id is suspended, every well-formed candidate that was handed to
\* addIceCandidate before the remote description was set has been applied to the
\* connection exactly once, in the order received.
C3_EarlyCandidatesApplied ==
  \A r \in Remotes :
    (HasSession(LocalUser, r) /\ ~InFlight(LocalUser, r)
       /\ SessionOf(LocalUser, r).remoteDesc.type # "none")
    => AppliedOnceInOrder(owed[LocalUser][r], SessionOf(LocalUser, r).applied)

\* C4: right after closeConnection(remoteId), a call of addIceCandidate or
\* handleAnswer for that id does not throw and re-creates no peer connection, no
\* connection-state entry and no pending-candidate entry.
C4_NoResurrectionAfterClose ==
  [][\A r \in Remotes :
       (/\ lastAct.op = "closeConnection" /\ lastAct.rid = r
        /\ (AddIceCandidate(r) \/ HandleAnswer(r)))
       => /\ lastAct'.res # "threw"
          /\ r \notin DOMAIN peerConnections'[LocalUser]
          /\ r \notin DOMAIN connectionStates'[LocalUser]
          /\ r \notin DOMAIN pendingCandidates'[LocalUser]]_vars

\* C8: when handleOffer has completed and no other call for the remote id is
\* suspended, every well-formed candidate queued for the remote id before the
\* offer's remote description was set has been applied to the new connection,
\* and the queue is empty.
C8_HandleOfferDrainsQueue ==
  \A r \in Remotes :
    (lastAct.op = "handleOffer" /\ lastAct.res = "done" /\ lastAct.rid = r
       /\ ~InFlight(LocalUser, r))
    => /\ pendingCandidates[LocalUser][r] = <<>>
       /\ \A i \in 1..Len(owed[LocalUser][r]) :
            \E j \in 1..Len(SessionOf(LocalUser, r).applied) :
              SessionOf(LocalUser, r).applied[j] = owed[LocalUser][r][i]

\* C10: the signalingState of a connection changes only from stable to
\* have-local-offer (createOffer), from have-local-offer to stable
\* (handleAnswer), from stable to have-remote-offer and from there to stable
\* (handleOffer), and from any state to closed; a new connection starts stable.
SignalingMoves ==
  {<<"stable", "have-local-offer", "createOffer">>,
   <<"have-local-offer", "stable", "handleAnswer">>,
   <<"stable", "have-remote-offer", "handleOffer">>,
   <<"have-remote-offer", "stable", "handleOffer">>}

C10_SignalingTransitions ==
  [][/\ \A h \in Handles \cap DOMAIN pcs' :
          pcs'[h].sig # pcs[h].sig =>
            \/ pcs'[h].sig = "closed"
            \/ <<pcs[h].sig, pcs'[h].sig, lastAct'.op>> \in SignalingMoves
     /\ \A h \in DOMAIN pcs' \ Handles : pcs'[h].sig = "stable"]_vars

\* A connection went through a remote offer and its answer while a suspended
\* call still holds a connection that was closed.
C10_Witness ==
  /\ \E h \in Handles : pcs[h].sig = "closed"
  /\ \E h \in Handles : pcs[h].sig = "stable" /\ pcs[h].remoteDesc.type = "offer"
                          /\ pcs[h].localDesc.type = "answer"

\* C7: initializeLocalStream(false, false) throws before any getUserMedia
\* request is made and leaves localStream and isInitialized unchanged.
C7_NoConstraintsFailsBeforeAccess ==
  [][InitializeLocalStream(FALSE, FALSE)
       => /\ lastAct'.res = "threw"
          /\ UNCHANGED <<localStream, isInitialized, captures, gum, gumCalls>>]_vars

\* initializeLocalStream(false, false) has just thrown while the manager holds
\* an initialized stream and another request is still waiting for the device.
C7_Witness ==
  /\ lastAct.op = "initializeLocalStream" /\ lastAct.rid = "none" /\ lastAct.res = "threw"
  /\ localStream[LocalUser] # 0 /\ isInitialized[LocalUser]
  /\ gum # EmptyBag

\* C9: stopScreenShare() while no share was ever obtained changes no field of
\* the screen share and no stream, and dispatches no event.
C9_StopWithoutShareIsNoOp ==
  [][(StopScreenShare /\ displays = <<>>)
       => /\ UNCHANGED <<share, displays, sharePending>>
          /\ share' = NewScreenShare
          /\ lastAct'.ev = {}]_vars

\* stopScreenShare() has just run although startScreenShare() was never called.
C9_Witness ==
  /\ lastAct.op = "stopScreenShare" /\ lastAct.ev = {}
  /\ displays = <<>> /\ sharePending = 0 /\ share = NewScreenShare

Connected(e, r) ==
  HasSession(e, r) /\ SessionOf(e, r).sig = "stable" /\ SessionOf(e, r).conn = "connected"

\* A step in which the presenter's listener takes up answers of viewer v only.
TakesUpAnswer(v) ==
  /\ processedSignalIds'[Teacher] # processedSignalIds[Teacher]
  /\ \A i \in processedSignalIds'[Teacher] \ processedSignalIds[Teacher] :
       signals[i].type = "answer" /\ signals[i].fromUserId = v

Apart(a, b) == a - b > 1000 \/ b - a > 1000

\* The time of the snapshot in which the presenter took up the join-request id.
TakenUpAt(id) ==
  LET c == CHOOSE c \in {offerCalls[k] : k \in 1..Len(offerCalls)} : c.cause = id
  IN c.now

\* C6: of the join-requests of one viewer that snapshots deliver to the
\* presenter within one second of each other, at most one leads to a createOffer
\* call and at most one to a published offer.
C6_JoinBurstOneOffer ==
  /\ \A i, j \in 1..Len(offerCalls) :
       (i < j /\ offerCalls[i].rid = offerCalls[j].rid)
       => Apart(offerCalls[i].now, offerCalls[j].now)
  /\ \A i, j \in 1..Len(signals) :
       (/\ i < j
        /\ signals[i].type = "offer" /\ signals[j].type = "offer"
        /\ signals[i].copyOf = 0 /\ signals[j].copyOf = 0
        /\ signals[i].targetUserId = signals[j].targetUserId)
       => Apart(TakenUpAt(signals[i].cause), TakenUpAt(signals[j].cause))

\* Two join-requests of one viewer were delivered to the presenter within one
\* second, in two snapshots; every callback has finished; createOffer was called
\* once and one offer was published.
C6_Witness ==
  /\ tasks = EmptyBag
  /\ Len(offerCalls) = 1
  /\ \E i, j \in processedSignalIds[Teacher] :
       /\ i # j
       /\ signals[i].type = "join-request" /\ signals[j].type = "join-request"
       /\ signals[i].fromUserId = signals[j].fromUserId
       /\ signals[i].first # signals[j].first
       /\ ~Apart(signals[i].first, signals[j].first)
  /\ \E k \in 1..Len(signals) : signals[k].type = "offer" /\ signals[k].copyOf = 0

\* ------------------------------------------------------------ the router
\* The step passes signal i to handleSignalingMessage.
Dispatched(i) == signals[i].reached = "none" /\ signals'[i].reached # "none"

\* The manager calls the router has in flight for signal i.
CallsFor(i) == {t \in BagToSet(tasks) : t.op # "onSnapshot" /\ t.cb.id = i}

\* The step changes no peer session, makes no manager call and publishes nothing.
RouterIdle ==
  /\ UNCHANGED <<mgrVars, offerCalls, owed>>
  /\ Len(signals') = Len(signals)
  /\ \A t \in BagToSet(tasks') : t.op # "onSnapshot" => CopiesIn(t, tasks') = CopiesIn(t, tasks)

\* The type of signal s is not one its recipient's role takes.
WrongRole(s) ==
  /\ s.fromUserId # s.targetUserId
  /\ \/ s.type = "offer" /\ s.targetUserId = Teacher
     \/ s.type \in {"answer", "join-request"} /\ s.targetUserId # Teacher

\* C11: an offer reaches handleOffer only at a viewer, an answer reaches
\* handleAnswer and a join-request initiateConnectionWithStudent only at the
\* presenter, an ice-candidate reaches addIceCandidate at either; taking up a
\* signal of a type the recipient's role does not take changes no peer session,
\* makes no manager call and publishes nothing.
C11_RoleDispatch ==
  /\ [](\A i \in 1..Len(signals) :
         LET s == signals[i]
             ops == {t.op : t \in CallsFor(i)} \cup ({s.reached} \ {"none"})
         IN /\ "handleOffer" \in ops => s.type = "offer" /\ s.targetUserId # Teacher
            /\ "handleAnswer" \in ops => s.type = "answer" /\ s.targetUserId = Teacher
            /\ ("initiateConnectionWithStudent" \in ops \/ "createOffer" \in ops)
                 => s.type = "join-request" /\ s.targetUserId = Teacher
            /\ "addIceCandidate" \in ops => s.type = "ice-candidate"
            /\ (s.type = "ice-candidate" /\ s.reached # "none"
                  /\ s.fromUserId # s.targetUserId) => s.reached = "addIceCandidate")
  /\ [][\A i \in 1..Len(signals) :
          (Dispatched(i) /\ WrongRole(signals[i])) => RouterIdle]_vars

\* The presenter's router has taken up an offer and a viewer's router a
\* join-request, and each has gone on to delete the document.
C11_Witness ==
  /\ \E i \in 1..Len(signals) :
       /\ signals[i].type = "offer" /\ signals[i].targetUserId = Teacher
       /\ signals[i].fromUserId # Teacher
       /\ signals[i].reached # "none" /\ ~signals[i].present
  /\ \E i \in 1..Len(signals) :
       /\ signals[i].type = "join-request" /\ signals[i].targetUserId \in Viewers
       /\ signals[i].fromUserId = Teacher
       /\ signals[i].reached # "none" /\ ~signals[i].present

\* C12: taking up a signal whose sender is the recipient itself changes no
\* peer session, makes no manager call and publishes nothing.
C12_OwnSignalDropped ==
  [][\A i \in 1..Len(signals) :
       (Dispatched(i) /\ signals[i].fromUserId = signals[i].targetUserId) => RouterIdle]_vars

\* A participant's router has taken up an ice-candidate and an offer or
\* join-request that the participant itself sent.
C12_Witness ==
  /\ \E i \in 1..Len(signals) :
       /\ signals[i].type = "ice-candidate"
       /\ signals[i].fromUserId = signals[i].targetUserId
       /\ signals[i].reached # "none"
  /\ \E i \in 1..Len(signals) :
       /\ \/ signals[i].type = "offer" /\ signals[i].targetUserId # Teacher
          \/ signals[i].type = "join-request" /\ signals[i].targetUserId = Teacher
       /\ signals[i].fromUserId = signals[i].targetUserId
       /\ signals[i].reached # "none"

SameKey(i, j) ==
  /\ signals[i].type = signals[j].type
  /\ signals[i].fromUserId = signals[j].fromUserId
  /\ signals[i].targetUserId = signals[j].targetUserId

\* C13: a signal is passed to handleSignalingMessage at most once, and never
\* less than the suppression window after another signal of the same type from
\* the same sender was passed to it.
C13_OncePerIdAndWindow ==
  /\ \A i \in 1..Len(signals) : signals[i].times <= 1
  /\ \A i, j \in 1..Len(signals) :
       (i # j /\ SameKey(i, j) /\ signals[i].times > 0 /\ signals[j].times > 0
          /\ signals[i].at <= signals[j].at)
       => signals[j].at - signals[i].at >= DedupWindow

\* The presenter's router takes up the join-request i of another participant.
JoinRequestTakenUp(i) ==
  /\ Dispatched(i)
  /\ signals[i].type = "join-request"
  /\ signals[i].targetUserId = Teacher /\ signals[i].fromUserId # Teacher

\* The createOffer call made for the join-request i completes successfully.
OfferCreatedFor(i) ==
  /\ lastAct'.op = "createOffer" /\ lastAct'.res = "done"
  /\ \E t \in CallsFor(i) :
       /\ t.op = "createOffer" /\ t.phase = "setLocal"
       /\ CopiesIn(t, tasks') < CopiesIn(t, tasks)

\* The presenter holds a peer connection to x whose state is connected.
ConnectedTo(x) ==
  /\ x \in DOMAIN peerConnections[Teacher]
  /\ pcs[peerConnections[Teacher][x]].conn = "connected"

\* The offers published for the join-request i.
OffersFor(sigs, i) ==
  {k \in 1..Len(sigs) : sigs[k].type = "offer" /\ sigs[k].cause = i /\ sigs[k].copyOf = 0}

MediaAttemptOver(s) ==
  /\ lastAct.e = s /\ lastAct.res # "pending"
  /\ lastAct.op \in {"initializeMedia", "initializeLocalStream"}

JoinRequestsOf(s) ==
  {i \in 1..Len(signals) : signals[i].type = "join-request" /\ signals[i].fromUserId = s
                              /\ signals[i].targetUserId = Teacher}

PublishedBy(sigs, e) == {i \in 1..Len(sigs) : sigs[i].fromUserId = e /\ sigs[i].copyOf = 0}

\* C16: when a participant's session is torn down, all its peer sessions are
\* closed, its local stream is stopped and its screen share is stopped, and
\* from then on it publishes no signaling message, not even from a timer or a
\* handler that was already under way.
C16_TeardownIsFinal ==
  [][\A e \in Users :
       /\ (room[e].mounted /\ ~room'[e].mounted)
            => /\ peerConnections'[e] = EmptyMap
               /\ localStream'[e] = 0
               /\ e = LocalUser => ~share'.isSharing /\ share'.localStream = 0
       /\ ~room[e].mounted => PublishedBy(signals', e) = PublishedBy(signals, e)]_vars

\* The manager of e has no entry for remote id r in any of its maps.
Absent(pm, rs, cs, pd, e, r) ==
  /\ r \notin DOMAIN pm[e] /\ r \notin DOMAIN rs[e]
  /\ r \notin DOMAIN cs[e] /\ r \notin DOMAIN pd[e]

\* The suspended handleAnswer call t resumes in this step.
AnswerResumes(t) ==
  /\ t.op = "handleAnswer" /\ t.cb = NoCallback
  /\ lastAct'.op = "handleAnswer" /\ lastAct'.e = t.e /\ lastAct'.rid = t.rid
  /\ CopiesIn(t, tasks') < CopiesIn(t, tasks)

\* C17: a handleAnswer call that resumes right after closeConnection has removed
\* the session of its remote id does not throw, does not apply the answer, and
\* leaves the remote id without an entry in any map of the manager.
C17_AnswerAfterClose ==
  [][\A t \in BagToSet(tasks) :
       (/\ AnswerResumes(t)
        /\ lastAct.op = "closeConnection" /\ lastAct.rid = t.rid
        /\ pcs[t.h].sig = "closed"
        /\ Absent(peerConnections, remoteStreams, connectionStates, pendingCandidates,
                  t.e, t.rid))
       => /\ lastAct'.res # "threw"
          /\ t.h \in DOMAIN pcs' => pcs'[t.h].remoteDesc = NoDesc
          /\ Absent(peerConnections', remoteStreams', connectionStates', pendingCandidates',
                    t.e, t.rid)]_vars

\* The step dispatches peer-disconnected for remote id r at participant e.
PeerDisconnected(e, r) ==
  /\ lastAct'.op = "connectionstatechange" /\ lastAct'.e = e
  /\ <<"peer-disconnected", r>> \in lastAct'.ev

\* C18: the step in which peer-disconnected is notified starts no
\* reconnection: no call is started, in particular no createOffer, and no
\* signal is published; of the component's state only activeConnections and
\* remoteStreams change, which lose the remote id.
C18_NoAutomaticReconnect ==
  [][\A e \in Users, r \in Users :
       PeerDisconnected(e, r)
       => /\ tasks' = tasks
          /\ offerCalls' = offerCalls
          /\ signals' = signals
          /\ peerConnections' = peerConnections
          /\ room'[e].activeConnections = room[e].activeConnections \ {r}
          /\ room'[e].remoteStreams = room[e].remoteStreams \ {r}
          /\ room' = [room EXCEPT ![e].activeConnections = room'[e].activeConnections,
                                  ![e].remoteStreams = room'[e].remoteStreams]]_vars

\* The presenter's connection to a viewer has gone from connected to
\* disconnected, and the viewer is no longer among its activeConnections.
C18_Witness ==
  \E r \in Remotes :
    /\ lastAct.op = "connectionstatechange" /\ lastAct.e = LocalUser /\ lastAct.rid = r
    /\ lastAct.res = "disconnected" /\ <<"peer-disconnected", r>> \in lastAct.ev
    /\ r \notin room[LocalUser].activeConnections
    /\ r \notin room[LocalUser].remoteStreams
    /\ r \in DOMAIN peerConnections[LocalUser]
    /\ connectionStates[LocalUser][r] = "disconnected"

\* What the manager of e holds for remote id b: its connection handle with the
\* signaling and connection state of that connection, its recorded connection
\* state, its pending candidates and its remote stream.
SessionView(pc, pm, rs, cs, pd, e, b) ==
  [handle |-> IF b \in DOMAIN pm[e] THEN pm[e][b] ELSE 0,
   sig |-> IF b \in DOMAIN pm[e] THEN pc[pm[e][b]].sig ELSE "none",
   conn |-> IF b \in DOMAIN pm[e] THEN pc[pm[e][b]].conn ELSE "none",
   state |-> IF b \in DOMAIN cs[e] THEN cs[e][b] ELSE "none",
   pending |-> IF b \in DOMAIN pd[e] THEN <<pd[e][b]>> ELSE <<>>,
   stream |-> IF b \in DOMAIN rs[e] THEN rs[e][b] ELSE 0]

\* C19: a step of createOffer, handleOffer, handleAnswer, addIceCandidate or
\* closeConnection on remote id a, whatever its outcome, leaves what the manager
\* holds for every other remote id b as it was.
C19_OtherSessionsUntouched ==
  [][\A a, b \in Students :
       (/\ a # b /\ lastAct'.e = LocalUser /\ lastAct'.rid = a
        /\ lastAct'.op \in {"createOffer", "handleOffer", "handleAnswer", "addIceCandidate",
                             "closeConnection"})
       => SessionView(pcs', peerConnections', remoteStreams', connectionStates',
                      pendingCandidates', LocalUser, b)
          = SessionView(pcs, peerConnections, remoteStreams, connectionStates,
                        pendingCandidates, LocalUser, b)]_vars

\* A call on a remote id without a session has thrown, while the other remote
\* id has a session with a local offer and a buffered candidate.
C19_Witness ==
  \E a, b \in Students :
    /\ a # b /\ lastAct.rid = a /\ lastAct.res = "threw"
    /\ b \in DOMAIN peerConnections[LocalUser]
    /\ pcs[peerConnections[LocalUser][b]].sig = "have-local-offer"
    /\ b \in DOMAIN pendingCandidates[LocalUser]
    /\ pendingCandidates[LocalUser][b] # <<>>
    /\ a \notin DOMAIN peerConnections[LocalUser]

\* The step is a call of closeConnection(r) on the manager of e.
Closes(e, r) ==
  lastAct'.op = "closeConnection" /\ lastAct'.e = e /\ lastAct'.rid = r

\* C20: closeConnection for a remote id for which the manager holds nothing
\* throws nothing, changes nothing and dispatches no event; and in every state
\* a second closeConnection right after a first one changes nothing and
\* dispatches no event.
C20_CloseIdempotent ==
  /\ [][\A r \in Remotes :
          (/\ Closes(LocalUser, r)
           /\ Absent(peerConnections, remoteStreams, connectionStates, pendingCandidates,
                     LocalUser, r))
          => /\ UNCHANGED <<mgrVars, tasks>>
             /\ lastAct'.res = "done" /\ lastAct'.ev = {}]_vars
  /\ [](\A r \in Remotes :
          LET once == closeConnection(Mgr, LocalUser, r)
              twice == closeConnection([once EXCEPT !.ev = {}], LocalUser, r)
          IN /\ twice = [once EXCEPT !.ev = {}]
             /\ Absent(once.peerConnections, once.remoteStreams, once.connectionStates,
                       once.pendingCandidates, LocalUser, r))

\* closeConnection has just run for a remote id for which the manager holds
\* nothing, while a call on that id's closed connection is still suspended.
C20_Witness ==
  \E r \in Remotes :
    /\ lastAct.op = "closeConnection" /\ lastAct.rid = r /\ lastAct.res = "done"
    /\ lastAct.ev = {}
    /\ Absent(peerConnections, remoteStreams, connectionStates, pendingCandidates,
              LocalUser, r)
    /\ \E t \in BagToSet(tasks) : t.rid = r /\ pcs[t.h].sig = "closed"

\* The suspended addIceCandidate call t resumes in this step.
CandidateResumes(t) ==
  /\ t.op = "addIceCandidate" /\ t.cb = NoCallback
  /\ lastAct'.op = "addIceCandidate" /\ lastAct'.e = t.e /\ lastAct'.rid = t.rid
  /\ lastAct'.res # "pending"
  /\ CopiesIn(t, tasks') < CopiesIn(t, tasks)

\* The connection of the call t is still the open session of its remote id.
StillItsSession(t) ==
  /\ t.rid \in DOMAIN peerConnections[t.e]
  /\ peerConnections[t.e][t.rid] = t.h
  /\ pcs[t.h].sig # "closed"

PendingOf(pd, e, r) == IF r \in DOMAIN pd[e] THEN pd[e][r] ELSE <<>>

\* C21: addIceCandidate appends the candidate to the pending candidates of the
\* remote id when it has no session or its session has no remote description,
\* and applies it otherwise; when applying it fails the call does not throw and
\* what the manager holds for the remote id stays as it was.
C21_CandidateBufferedOrApplied ==
  [][/\ \A r \in Remotes :
          (/\ lastAct'.op = "addIceCandidate" /\ lastAct'.rid = r
           /\ nextCand' = nextCand + 1
           /\ r \notin DOMAIN peerConnections[LocalUser])
          => /\ lastAct'.res = "buffered"
             /\ Len(PendingOf(pendingCandidates', LocalUser, r))
                  = Len(PendingOf(pendingCandidates, LocalUser, r)) + 1
             /\ PendingOf(pendingCandidates', LocalUser, r)[Len(PendingOf(pendingCandidates', LocalUser, r))].h
                  = nextCand
     /\ \A t \in BagToSet(tasks) :
          (CandidateResumes(t) /\ StillItsSession(t))
          => /\ lastAct'.res # "threw"
             /\ pcs[t.h].remoteDesc.type = "none"
                  => /\ pendingCandidates'[t.e][t.rid] = Append(pendingCandidates[t.e][t.rid], t.arg)
                     /\ pcs'[t.h] = pcs[t.h]
             /\ (pcs[t.h].remoteDesc.type # "none" /\ t.arg.ok)
                  => /\ pcs'[t.h].applied = Append(pcs[t.h].applied, t.arg.h)
                     /\ pendingCandidates' = pendingCandidates
             /\ (pcs[t.h].remoteDesc.type # "none" /\ ~t.arg.ok)
                  => SessionView(pcs', peerConnections', remoteStreams', connectionStates',
                                 pendingCandidates', t.e, t.rid)
                     = SessionView(pcs, peerConnections, remoteStreams, connectionStates,
                                   pendingCandidates, t.e, t.rid)]_vars


\* The createOffer or handleOffer call t, made by the router, ends in this step.
OfferCallEnds(t) ==
  /\ t.op \in {"createOffer", "handleOffer"} /\ t.cb # NoCallback
  /\ lastAct'.op = t.op /\ lastAct'.e = t.e /\ lastAct'.rid = t.rid
  /\ lastAct'.res # "pending"
  /\ CopiesIn(t, tasks') < CopiesIn(t, tasks)

\* C22: a createOffer or handleOffer call that fails while it generates or
\* applies a description ends with the error thrown to its caller, and then
\* the manager holds no peer connection, connection state, pending candidates
\* or remote stream for the remote id and no offer or answer is published;
\* a call that does not fail publishes exactly one.
C22_FailedSessionDiscarded ==
  [][\A t \in BagToSet(tasks) :
        OfferCallEnds(t) =>
          \/ /\ lastAct'.res = "threw"
             /\ Absent(peerConnections', remoteStreams', connectionStates',
                       pendingCandidates', t.e, t.rid)
             /\ Len(signals') = Len(signals)
          \/ /\ lastAct'.res = "done"
             /\ Len(signals') = Len(signals) + 1
             /\ signals'[Len(signals')].cause = t.cb.id
             /\ signals'[Len(signals')].type
                  = (IF t.op = "createOffer" THEN "offer" ELSE "answer")]_vars

\* A handleOffer call of the viewer has failed: the teacher's offer is
\* published, no answer is, and the viewer holds nothing for the teacher.
C22_Witness ==
  /\ lastAct.op = "handleOffer" /\ lastAct.res = "threw"
  /\ \E i \in 1..Len(signals) : signals[i].type = "offer"
  /\ \A i \in 1..Len(signals) : signals[i].type # "answer"
  /\ Absent(peerConnections, remoteStreams, connectionStates, pendingCandidates,
            lastAct.e, lastAct.rid)

\* The captured streams cs, their tracks' enabled flags set to those of ds.
WithFlagsOf(cs, ds) ==
  [i \in DOMAIN cs |-> [cs[i] EXCEPT !.audioEnabled = ds[i].audioEnabled,
                                     !.videoEnabled = ds[i].videoEnabled]]

\* C23: a call of updateLocalStreamTracks changes nothing but the enabled flags
\* of the tracks of the local stream: the manager's sessions, their connections
\* with signaling state, descriptions and attached tracks, the calls under way
\* and the local stream stay as they are, and no signal is published.
C23_ToggleOnlyFlipsEnabled ==
  [][lastAct'.op = "updateLocalStreamTracks" =>
       /\ mgrVars' = mgrVars /\ tasks' = tasks
       /\ signals' = signals
       /\ localStream' = localStream /\ isInitialized' = isInitialized
       /\ DOMAIN captures' = DOMAIN captures
       /\ WithFlagsOf(captures', captures) = captures]_vars

\* The teacher has switched the camera off while a session with an offer of
\* its own carries the tracks of the local stream.
C23_Witness ==
  /\ lastAct.op = "updateLocalStreamTracks"
  /\ localStream[LocalUser] # 0
  /\ captures[localStream[LocalUser]].video
  /\ ~captures[localStream[LocalUser]].videoEnabled
  /\ captures[localStream[LocalUser]].live
  /\ \E r \in DOMAIN peerConnections[LocalUser] :
        /\ pcs[peerConnections[LocalUser][r]].tracks = localStream[LocalUser]
        /\ pcs[peerConnections[LocalUser][r]].sig = "have-local-offer"
  /\ \E i \in 1..Len(signals) : signals[i].type = "offer"

\* The relaxations of a request, in their order: audio and video, then audio
\* alone; a request without video starts at audio alone.
FallbackChain(want) ==
  IF want \in {"audio+video", "video"} THEN <<"audio+video", "audio">> ELSE <<"audio">>

\* The attempts of the run m that followed its first one.
Retries(m) == SubSeq(m.tried, 2, Len(m.tried))

\* C24: after an acquisition has failed with unsatisfiable constraints, the
\* attempts that follow are those of the fallback chain in its order (audio and
\* video, then audio alone), there are never more than three attempts in all,
\* and the run reports a failure only after the whole chain has been tried and
\* every attempt has failed.
C24_FallbackOrder ==
  LET m == room[LocalUser].media
  IN m.fellBack =>
       /\ Len(m.tried) <= 3
       /\ Len(Retries(m)) <= Len(FallbackChain(m.want))
       /\ Retries(m) = SubSeq(FallbackChain(m.want), 1, Len(Retries(m)))
       /\ m.result = "false" =>
            /\ Retries(m) = FallbackChain(m.want)
            /\ m.failed = Len(m.tried)

\* stopScreenShare runs in this step while listeners are registered.
StopsShare ==
  /\ lastAct'.op \in {"stopScreenShare", "ended"}
  /\ share.eventListeners # {} /\ share'.eventListeners = {}

\* C25: when stopScreenShare has run, none of the listeners that were
\* registered is left on a track, so that no 'ended' listener can call
\* stopScreenShare again, every track of the shared stream is stopped, the
\* stream is null, isSharing is false and the list of listeners is empty.
C25_StopRemovesEveryListener ==
  [][StopsShare =>
       /\ \A sid \in DOMAIN displays' : displays'[sid].listeners = {}
       /\ share.localStream # 0 =>
            /\ displays'[share.localStream].video = "ended"
            /\ displays'[share.localStream].audio # "live"
       /\ share'.localStream = 0 /\ ~share'.isSharing]_vars

\* A mute-change notification for the kind k is dispatched in this step.
Notifies(k) == <<"screenshare-mute-change", k>> \in lastAct'.ev

\* What the timer's callback reads as the mute state of the track it was set for.
CurrentMuted == Muted(displays[share.muteDebounceTimer.sid].enabled)

\* C26: a mute-change notification for a kind is dispatched only by the
\* debounce timer's callback, for the kind of the track the timer was last set
\* for, and only when that track's mute state differs from the state last
\* recorded for the kind, which it then becomes; its value differs from that of
\* the notification before it for the same kind in this share; and a mute or
\* unmute event dispatches nothing and leaves the one timer pending, so that a
\* burst of events within the window ends in one callback and at most one
\* notification.
C26_MuteChangeOnlyOnChange ==
  [][/\ lastAct'.op \in {"mute", "unmute"} =>
          /\ lastAct'.ev = {}
          /\ share'.muteDebounceTimer.state = "pending"
     /\ \A k \in {"video", "audio"} :
          Notifies(k) =>
            /\ lastAct'.op = "muteDebounced" /\ lastAct'.ev = {<<"screenshare-mute-change", k>>}
            /\ share.muteDebounceTimer.state = "pending"
            /\ share.muteDebounceTimer.kind = k
            /\ share'.muteDebounceTimer.state # "pending"
            /\ CurrentMuted # share.lastMuteState[k]
            /\ share'.lastMuteState[k] = CurrentMuted
            /\ CurrentMuted # share.notified[k]]_vars

\* A burst of events has ended in a notification: the timer's callback has
\* just dispatched a mute-change during a share.
C26_Witness ==
  /\ lastAct.op = "muteDebounced"
  /\ \E k \in {"video", "audio"} : <<"screenshare-mute-change", k>> \in lastAct.ev
  /\ share.isSharing

\* The captured streams whose tracks have not been stopped.
LiveCaptures == {i \in 1..Len(captures) : captures[i].live}

\* C27: at most one local capture stream is live at any time: when
\* initializeLocalStream has acquired a stream, every stream acquired before it
\* has been stopped.
C27_AtMostOneLiveCapture == Cardinality(LiveCaptures) <= 1

\* The tasks under way for signal i: manager calls the router awaits and the
\* snapshot callback at one of its own awaits.
TasksFor(ts, i) == {t \in BagToSet(ts) : t.cb # NoCallback /\ t.cb.id = i}

\* The snapshot callback awaits the deletion of signal i.
DeletionRequested(ts, i) ==
  \E t \in TasksFor(ts, i) : t.op = "onSnapshot" /\ t.phase = "deleteDoc"

\* The handling of signal i by handleSignalingMessage ends in this step.
HandlingEnds(i) ==
  /\ \/ Dispatched(i)
     \/ \E t \in TasksFor(tasks, i) : ~(t.op = "onSnapshot" /\ t.phase = "deleteDoc")
  /\ \A t \in TasksFor(tasks', i) : t.op = "onSnapshot" /\ t.phase = "deleteDoc"

\* The deletion awaited by the snapshot callback t fails in this step.
DeletionFails(t) ==
  /\ t.op = "onSnapshot" /\ t.phase = "deleteDoc"
  /\ lastAct'.op = "deleteDocRejected" /\ lastAct'.e = t.e /\ lastAct'.rid = t.rid
  /\ CopiesIn(t, tasks') < CopiesIn(t, tasks)

\* Signal i of the batch has been taken by the loop, or the loop is suspended
\* at a signal before it.
NotDropped(t, i) ==
  \/ i \in processedSignalIds'[t.e]
  \/ \E u \in BagToSet(tasks') :
        /\ u.cb # NoCallback /\ u.e = t.e /\ u.cb.now = t.cb.now
        /\ \E k \in 1..Len(u.cb.rest) : u.cb.rest[k] = i

\* C28: when handleSignalingMessage is through with a signal, the listener
\* requests the deletion of its document; and when a deletion fails, the
\* document stays, the signal is not passed to the router again, every
\* remaining signal of the batch is still taken by the loop, and the peer
\* sessions change only by what the router does with the next signal.
C28_FailedDeletionNotFatal ==
  [][/\ \A i \in 1..Len(signals) : HandlingEnds(i) => DeletionRequested(tasks', i)
     /\ \A t \in BagToSet(tasks) :
          DeletionFails(t) =>
            /\ signals'[t.cb.id].present
            /\ signals'[t.cb.id].times = signals[t.cb.id].times
            /\ \A k \in 1..Len(t.cb.rest) : NotDropped(t, t.cb.rest[k])
            /\ (\A k \in 1..Len(t.cb.rest) : ~Dispatched(t.cb.rest[k]))
                 => UNCHANGED mgrVars]_vars

\* A deletion has failed and the router has taken the next signal of the batch.
C28_Witness ==
  /\ lastAct.op = "deleteDocRejected"
  /\ \E i, j \in 1..Len(signals) :
        /\ i # j
        /\ signals[i].present /\ signals[i].reached # "none"
        /\ TasksFor(tasks, i) = {}
        /\ signals[j].reached = "initiateConnectionWithStudent"
        /\ signals[j].first = signals[i].first
        /\ TasksFor(tasks, j) # {}

\* C29: when closeAllConnections has run, the manager holds no peer connection,
\* no connection state, no remote stream and no pending candidates for any
\* remote id, whether or not the id ever had a connection.
C29_CloseAllLeavesNothing ==
  [][lastAct'.op = "closeAllConnections" =>
       /\ DOMAIN peerConnections'[lastAct'.e] = {}
       /\ DOMAIN connectionStates'[lastAct'.e] = {}
       /\ DOMAIN remoteStreams'[lastAct'.e] = {}
       /\ DOMAIN pendingCandidates'[lastAct'.e] = {}]_vars

\* The createOffer call t returns its offer in this step.
CreateOfferReturns(t) ==
  /\ t.op = "createOffer" /\ t.phase = "setLocal"
  /\ lastAct'.op = "createOffer" /\ lastAct'.e = t.e /\ lastAct'.rid = t.rid
  /\ lastAct'.res = "done"
  /\ CopiesIn(t, tasks') < CopiesIn(t, tasks)

\* C30: when a createOffer call returns an offer, the manager's entry for the
\* remote id is the connection the call created, that connection is open, its
\* signaling state is have-local-offer and its local description is the offer
\* returned, whatever other calls for the id ran while the call was suspended.
C30_ReturnedOfferIsInstalled ==
  [][\A t \in BagToSet(tasks) :
        CreateOfferReturns(t) =>
          /\ t.rid \in DOMAIN peerConnections'[t.e]
          /\ peerConnections'[t.e][t.rid] = t.h
          /\ pcs'[t.h].sig = "have-local-offer"
          /\ pcs'[t.h].conn # "closed"
          /\ pcs'[t.h].localDesc = t.arg /\ t.arg.type = "offer"]_vars

\* A createOffer call has returned its offer while an earlier call for the same
\* remote id, whose connection it replaced, is still suspended.
C30_Witness ==
  /\ lastAct.op = "createOffer" /\ lastAct.res = "done"
  /\ lastAct.rid \in DOMAIN peerConnections[lastAct.e]
  /\ pcs[peerConnections[lastAct.e][lastAct.rid]].sig = "have-local-offer"
  /\ \E t \in BagToSet(tasks) :
        /\ t.op \in {"createOffer", "handleOffer"}
        /\ t.e = lastAct.e /\ t.rid = lastAct.rid
        /\ t.h \in DOMAIN pcs /\ pcs[t.h].sig = "closed"

\* C31: every remote id in peerConnections maps to a connection whose
\* signaling state is not closed, and connectionStates has an entry for a
\* remote id exactly when peerConnections has one.
C31_TableHoldsOpenConnections ==
  \A e \in Users :
    /\ \A r \in DOMAIN peerConnections[e] :
         /\ peerConnections[e][r] \in DOMAIN pcs
         /\ pcs[peerConnections[e][r]].sig # "closed"
    /\ DOMAIN connectionStates[e] = DOMAIN peerConnections[e]

\* The presenter has started the session with a viewer again while the
\* replaced connection, now closed, is still used by a suspended call, and the
\* table holds the new, open connection.
C31_Witness ==
  /\ \E r \in DOMAIN peerConnections[LocalUser] :
        /\ pcs[peerConnections[LocalUser][r]].sig # "closed"
        /\ r \in DOMAIN connectionStates[LocalUser]
        /\ \E h \in DOMAIN pcs :
             /\ pcs[h].owner = LocalUser /\ pcs[h].rid = r /\ pcs[h].sig = "closed"

\* The step is a state-change or track callback of a connection of e to r.
CallbackFires(e, r) ==
  /\ lastAct'.op \in {"connectionstatechange", "track"}
  /\ lastAct'.e = e /\ lastAct'.rid = r
  /\ lastAct' # lastAct

\* C32: the connection state and the remote stream recorded for a remote id
\* are those of the connection that peerConnections holds for the id; a
\* state-change or track callback runs only for that connection, and only
\* then are peer-connected and remote-stream-added dispatched for the id.
C32_EntriesDescribeCurrentConnection ==
  /\ [](\A e \in Users :
          /\ \A r \in DOMAIN connectionStates[e] :
               /\ r \in DOMAIN peerConnections[e]
               /\ connectionStates[e][r] = pcs[peerConnections[e][r]].conn
          /\ \A r \in DOMAIN remoteStreams[e] :
               /\ r \in DOMAIN peerConnections[e]
               /\ remoteStreams[e][r] = peerConnections[e][r])
  /\ [][\A e \in Users, r \in Users :
          /\ CallbackFires(e, r) =>
               /\ r \in DOMAIN peerConnections[e]
               /\ peerConnections'[e] = peerConnections[e]
               /\ pcs[peerConnections[e][r]].sig # "closed"
          /\ (<<"peer-connected", r>> \in lastAct'.ev /\ lastAct'.e = e /\ lastAct' # lastAct)
               => /\ r \in DOMAIN peerConnections'[e]
                  /\ pcs'[peerConnections'[e][r]].conn = "connected"
          /\ (<<"remote-stream-added", r>> \in lastAct'.ev /\ lastAct'.e = e /\ lastAct' # lastAct)
               => /\ r \in DOMAIN peerConnections'[e]
                  /\ remoteStreams'[e][r] = peerConnections'[e][r]]_vars

\* The presenter's current connection to a viewer has reported a state change,
\* which is recorded, while a connection it replaced, closed since, is still
\* held by a suspended call.
C32_Witness ==
  \E r \in DOMAIN peerConnections[LocalUser] :
    /\ lastAct.op = "connectionstatechange" /\ lastAct.rid = r
    /\ connectionStates[LocalUser][r] = "connecting"
    /\ \E h \in DOMAIN pcs :
         /\ pcs[h].owner = LocalUser /\ pcs[h].rid = r /\ pcs[h].sig = "closed"

\* C33: the component's activeConnections contains a remote id only while the
\* manager holds a session for it whose recorded connection state is
\* connected; after closeConnection, closeAllConnections or a replacement the
\* id is absent until the new connection reports connected.
C33_ActiveOnlyWhileConnected ==
  \A e \in Users : \A r \in room[e].activeConnections :
    /\ r \in DOMAIN peerConnections[e]
    /\ connectionStates[e][r] = "connected"

\* C34: a step that stops a screen share that is active, by an explicit
\* stopScreenShare or by the 'ended' listener of a track, dispatches the
\* screenshare-ended event.
C34_ActiveStopDispatchesEnded ==
  [][(/\ lastAct'.op \in {"stopScreenShare", "ended"}
      /\ share.isSharing /\ ~share'.isSharing)
     => <<"screenshare-ended", "none">> \in lastAct'.ev]_vars

\* C35: in every state isInitialized is true exactly when the manager holds a
\* local stream, and stopLocalStream leaves no capture live, also when a
\* getUserMedia request that was pending while it ran resolves right after it.
C35_StopLeavesNoCapture ==
  /\ [](\A e \in Users : isInitialized[e] <=> localStream[e] # 0)
  /\ [][(/\ lastAct.op = "stopLocalStream"
         /\ lastAct'.op = "initializeLocalStream" /\ lastAct'.res = "done")
        => LiveCaptures' = {}]_vars

\* The answers published by a router, as opposed to copies made by the transport.
PublishedAnswers ==
  {i \in 1..Len(signals) : signals[i].type = "answer" /\ signals[i].copyOf = 0}

\* C36: every published answer replies to an offer that its publisher, a
\* viewer, passed to handleOffer, and is addressed to the sender of that offer;
\* no offer has two answers; and the step that publishes an answer is the one
\* in which handleOffer completes, with the offer as the remote and the answer
\* as the local description of the viewer's connection.
C36_AnswerOnlyToDispatchedOffer ==
  /\ [](\A i \in PublishedAnswers :
          LET a == signals[i]
          IN /\ a.cause \in 1..Len(signals)
             /\ signals[a.cause].type = "offer"
             /\ signals[a.cause].reached = "handleOffer"
             /\ signals[a.cause].targetUserId = a.fromUserId
             /\ a.fromUserId # Teacher
             /\ a.targetUserId = signals[a.cause].fromUserId
             /\ \A j \in PublishedAnswers : signals[j].cause = a.cause => j = i)
  /\ [][\A i \in 1..Len(signals') :
          (i > Len(signals) /\ signals'[i].type = "answer" /\ signals'[i].copyOf = 0) =>
            LET a == signals'[i]
                e == a.fromUserId
                r == a.targetUserId
            IN /\ lastAct'.op = "handleOffer" /\ lastAct'.res = "done"
               /\ lastAct'.e = e /\ lastAct'.rid = r
               /\ r \in DOMAIN peerConnections'[e]
               /\ pcs'[peerConnections'[e][r]].remoteDesc = signals[a.cause].body
               /\ pcs'[peerConnections'[e][r]].localDesc = a.body
               /\ a.body.type = "answer"]_vars

\* A viewer's handleOffer has completed and its answer to the presenter's
\* offer is published, after an earlier handleOffer of the viewer failed
\* without an answer.
C36_Witness ==
  /\ lastAct.op = "handleOffer" /\ lastAct.res = "done"
  /\ Cardinality(PublishedAnswers) = 1
  /\ \E i \in PublishedAnswers : signals[i].id = Len(signals)
  /\ \E c \in 1..Len(signals) :
       /\ signals[c].type = "offer" /\ signals[c].reached = "handleOffer"
       /\ \A i \in PublishedAnswers : signals[i].cause # c

\* The ice-candidate signals.
Candidates == {i \in 1..Len(signals) : signals[i].type = "ice-candidate"}

\* The listener of its addressee has looked at signal i and skipped it.
Skipped(i) ==
  /\ i \in processedSignalIds[signals[i].targetUserId]
  /\ signals[i].times = 0

\* The candidate of signal i is held by the manager of its addressee: applied to
\* a connection, buffered in pendingCandidates, or the argument of a call.
CandidateHeld(i) ==
  LET s == signals[i]
      e == s.targetUserId
      r == s.fromUserId
  IN \/ \E h \in DOMAIN pcs :
          /\ pcs[h].owner = e /\ pcs[h].rid = r
          /\ \E k \in 1..Len(pcs[h].applied) : pcs[h].applied[k] = s.body.h
     \/ /\ r \in DOMAIN pendingCandidates[e]
        /\ \E k \in 1..Len(pendingCandidates[e][r]) : pendingCandidates[e][r][k] = s.body
     \/ \E t \in BagToSet(tasks) :
          t.op = "addIceCandidate" /\ t.e = e /\ t.rid = r /\ t.arg = s.body

\* C37: the suppression window covers ice-candidate signals: of two of them
\* with distinct ids from one sender, each reported by one snapshot, that
\* arrive less than the window apart, in one batch or not, at most one is
\* passed to addIceCandidate, and one that the listener skipped is never
\* applied nor buffered and stays in the collection.
C37_CandidatesSuppressedInWindow ==
  /\ \A i, j \in Candidates :
       (/\ i # j /\ SameKey(i, j)
        /\ signals[i].seen = 1 /\ signals[j].seen = 1
        /\ signals[i].first <= signals[j].first
        /\ signals[j].first - signals[i].first < DedupWindow)
       => ~(signals[i].times > 0 /\ signals[j].times > 0)
  /\ \A i \in Candidates :
       Skipped(i) => /\ signals[i].reached = "none"
                     /\ signals[i].present
                     /\ ~CandidateHeld(i)

\* Two candidates of one viewer arrived within the window, each reported once:
\* the first was passed to addIceCandidate and is held by the manager, the
\* second was skipped and is still in the collection.
C37_Witness ==
  \E i, j \in Candidates :
    /\ i # j /\ SameKey(i, j)
    /\ signals[i].seen = 1 /\ signals[j].seen = 1
    /\ signals[i].reached = "addIceCandidate" /\ CandidateHeld(i)
    /\ Skipped(j) /\ signals[j].present
    /\ signals[j].first > signals[i].first
    /\ signals[j].first - signals[i].first < DedupWindow
====
